---- MODULE Spec2Model ----
(***************************************************************************)
(* Model of scripts/sync-google-sheet.js: the one-way sheet-to-store       *)
(* reconciliation run (fetch, normalize, delete stale rows, chunked        *)
(* upsert, summary) against a keyed store.                                 *)
(*                                                                         *)
(* Strings are sequences of one-character strings, so that trim and        *)
(* Number() are computed and not assumed.  A JavaScript object is a        *)
(* function whose DOMAIN is the set of its own properties: a deleted or    *)
(* never-set property is outside the DOMAIN and reads as undefined.        *)
(* attendance_percentage is kept in hundredths of a percent (90.00 is      *)
(* 9000), which is exactly what Math.round(p * 100) / 100 can represent.   *)
(*                                                                         *)
(* Spec takes the fetch as one step and explores runs one after another;   *)
(* SpecAttendance is one run over every combination of the cells the       *)
(* attendance derivation reads; SpecFetch is one run with the fetch taken  *)
(* call by call under every set of credentials; SpecCsv is one run over    *)
(* quoted texts of the CSV endpoint; SpecHeaders is one run over header    *)
(* rows of several spellings.  SpecSearch is the page of                   *)
(* src/components/StudentSearch.tsx reading the table.                     *)
(***************************************************************************)
EXTENDS Integers, Sequences, FiniteSets, TLC

\* ---------------------------------------------------------------- bounds
\* Longest sheet (data rows) a run may pull.
MaxRows == 2
\* Number of process invocations (runs) explored one after another.
MaxRuns == 2

\* ---------------------------------------------------------------- values
\* JavaScript / SQL values: null, a finite number, a string, undefined.
Null == [k |-> "null", n |-> 0, s |-> <<>>]
Undefined == [k |-> "undefined", n |-> 0, s |-> <<>>]
Num(x) == [k |-> "num", n |-> x, s |-> <<>>]
Str(x) == [k |-> "str", n |-> 0, s |-> x]

\* obj[f] of JavaScript: undefined when the property is not there.
Get(obj, f) == IF f \in DOMAIN obj THEN obj[f] ELSE Undefined

\* JavaScript truthiness of a value ('' , 0, null and undefined are falsy).
Truthy(v) ==
  CASE v.k = "str" -> v.s # <<>>
    [] v.k = "num" -> v.n # 0
    [] OTHER -> FALSE

\* (v || 0) followed by numeric use: the number v stands for, 0 when falsy.
OrZero(v) == IF v.k = "num" THEN v.n ELSE 0

\* ---------------------------------------------------------------- strings
\* The white space of String.prototype.trim and of \s.
IsSpace(c) == c \in {" ", "\t", "\n", "\r"}

RECURSIVE TrimLeft(_)
TrimLeft(s) ==
  IF s # <<>> /\ IsSpace(Head(s)) THEN TrimLeft(Tail(s)) ELSE s

RECURSIVE TrimRight(_)
TrimRight(s) ==
  IF s # <<>> /\ IsSpace(s[Len(s)]) THEN TrimRight(SubSeq(s, 1, Len(s) - 1)) ELSE s

\* String.prototype.trim
Trim(s) == TrimRight(TrimLeft(s))

Digits == <<"0", "1", "2", "3", "4", "5", "6", "7", "8", "9">>
IsDigit(c) == \E d \in 1..10 : Digits[d] = c
DigitVal(c) == (CHOOSE d \in 1..10 : Digits[d] = c) - 1

RECURSIVE ParseNat(_, _)
ParseNat(s, acc) ==
  IF s = <<>> THEN acc ELSE ParseNat(Tail(s), 10 * acc + DigitVal(Head(s)))

AllDigits(s) == s # <<>> /\ \A i \in 1..Len(s) : IsDigit(s[i])

\* Number(s) for a trimmed, non-empty s: a signed decimal integer, or NaN
\* (reported here as Undefined) for anything else over the model's alphabet.
NumberOf(s) ==
  IF AllDigits(s) THEN Num(ParseNat(s, 0))
  ELSE IF Head(s) = "-" /\ AllDigits(Tail(s)) THEN Num(0 - ParseNat(Tail(s), 0))
  ELSE Undefined

\* ---------------------------------------------------------------- headers
Upper == <<"A", "B", "C", "D", "E", "F", "G", "H", "I", "J", "K", "L", "M", "N", "O", "P", "Q", "R", "S", "T", "U", "V", "W", "X", "Y", "Z">>
Lower == <<"a", "b", "c", "d", "e", "f", "g", "h", "i", "j", "k", "l", "m", "n", "o", "p", "q", "r", "s", "t", "u", "v", "w", "x", "y", "z">>

\* The property names the script reads from the header index, as strings.
FieldName ==
     "register_no" :> <<"r", "e", "g", "i", "s", "t", "e", "r", "_", "n", "o">>
  @@ "name" :> <<"n", "a", "m", "e">>
  @@ "father_name" :> <<"f", "a", "t", "h", "e", "r", "_", "n", "a", "m", "e">>
  @@ "mother_name" :> <<"m", "o", "t", "h", "e", "r", "_", "n", "a", "m", "e">>
  @@ "address" :> <<"a", "d", "d", "r", "e", "s", "s">>
  @@ "class" :> <<"c", "l", "a", "s", "s">>
  @@ "year" :> <<"y", "e", "a", "r">>
  @@ "department" :> <<"d", "e", "p", "a", "r", "t", "m", "e", "n", "t">>
  @@ "cia_1_mark" :> <<"c", "i", "a", "_", "1", "_", "m", "a", "r", "k">>
  @@ "cia_2_mark" :> <<"c", "i", "a", "_", "2", "_", "m", "a", "r", "k">>
  @@ "present_today" :> <<"p", "r", "e", "s", "e", "n", "t", "_", "t", "o", "d", "a", "y">>
  @@ "leave_taken" :> <<"l", "e", "a", "v", "e", "_", "t", "a", "k", "e", "n">>
  @@ "email" :> <<"e", "m", "a", "i", "l">>
  @@ "phone_number" :> <<"p", "h", "o", "n", "e", "_", "n", "u", "m", "b", "e", "r">>
  @@ "profile_image_url" :> <<"p", "r", "o", "f", "i", "l", "e", "_", "i", "m", "a", "g", "e", "_", "u", "r", "l">>

\* HEADER_MAP: normalized label -> canonical field name.
HEADER_MAP ==
     <<"r", "e", "g", "i", "s", "t", "e", "r", " ", "n", "o">> :> <<"r", "e", "g", "i", "s", "t", "e", "r", "_", "n", "o">>
  @@ <<"r", "e", "g", "i", "s", "t", "e", "r", "_", "n", "o">> :> <<"r", "e", "g", "i", "s", "t", "e", "r", "_", "n", "o">>
  @@ <<"r", "e", "g", " ", "n", "o">> :> <<"r", "e", "g", "i", "s", "t", "e", "r", "_", "n", "o">>
  @@ <<"r", "e", "g", "i", "s", "t", "r", "a", "t", "i", "o", "n", " ", "n", "u", "m", "b", "e", "r">> :> <<"r", "e", "g", "i", "s", "t", "e", "r", "_", "n", "o">>
  @@ <<"n", "a", "m", "e">> :> <<"n", "a", "m", "e">>
  @@ <<"f", "a", "t", "h", "e", "r", " ", "n", "a", "m", "e">> :> <<"f", "a", "t", "h", "e", "r", "_", "n", "a", "m", "e">>
  @@ <<"m", "o", "t", "h", "e", "r", " ", "n", "a", "m", "e">> :> <<"m", "o", "t", "h", "e", "r", "_", "n", "a", "m", "e">>
  @@ <<"a", "d", "d", "r", "e", "s", "s">> :> <<"a", "d", "d", "r", "e", "s", "s">>
  @@ <<"c", "l", "a", "s", "s">> :> <<"c", "l", "a", "s", "s">>
  @@ <<"y", "e", "a", "r">> :> <<"y", "e", "a", "r">>
  @@ <<"d", "e", "p", "a", "r", "t", "m", "e", "n", "t">> :> <<"d", "e", "p", "a", "r", "t", "m", "e", "n", "t">>
  @@ <<"c", "i", "a", "-", "1", " ", "m", "a", "r", "k">> :> <<"c", "i", "a", "_", "1", "_", "m", "a", "r", "k">>
  @@ <<"c", "i", "a", " ", "1", " ", "m", "a", "r", "k">> :> <<"c", "i", "a", "_", "1", "_", "m", "a", "r", "k">>
  @@ <<"c", "i", "a", "1">> :> <<"c", "i", "a", "_", "1", "_", "m", "a", "r", "k">>
  @@ <<"c", "i", "a", "-", "2", " ", "m", "a", "r", "k">> :> <<"c", "i", "a", "_", "2", "_", "m", "a", "r", "k">>
  @@ <<"c", "i", "a", " ", "2", " ", "m", "a", "r", "k">> :> <<"c", "i", "a", "_", "2", "_", "m", "a", "r", "k">>
  @@ <<"c", "i", "a", "2">> :> <<"c", "i", "a", "_", "2", "_", "m", "a", "r", "k">>
  @@ <<"p", "r", "e", "s", "e", "n", "t", " ", "t", "o", " ", "c", "l", "a", "s", "s", " ", "(", "t", "o", "d", "a", "y", ")">> :> <<"p", "r", "e", "s", "e", "n", "t", "_", "t", "o", "d", "a", "y">>
  @@ <<"p", "r", "e", "s", "e", "n", "t", " ", "t", "o", "d", "a", "y">> :> <<"p", "r", "e", "s", "e", "n", "t", "_", "t", "o", "d", "a", "y">>
  @@ <<"l", "e", "a", "v", "e", " ", "t", "a", "k", "e", "n">> :> <<"l", "e", "a", "v", "e", "_", "t", "a", "k", "e", "n">>
  @@ <<"e", "m", "a", "i", "l">> :> <<"e", "m", "a", "i", "l">>
  @@ <<"m", "a", "i", "l">> :> <<"e", "m", "a", "i", "l">>
  @@ <<"p", "h", "o", "n", "e", " ", "n", "u", "m", "b", "e", "r">> :> <<"p", "h", "o", "n", "e", "_", "n", "u", "m", "b", "e", "r">>
  @@ <<"p", "h", "o", "n", "e">> :> <<"p", "h", "o", "n", "e", "_", "n", "u", "m", "b", "e", "r">>
  @@ <<"m", "o", "b", "i", "l", "e">> :> <<"p", "h", "o", "n", "e", "_", "n", "u", "m", "b", "e", "r">>

ToLower(c) ==
  IF \E i \in 1..26 : Upper[i] = c
  THEN Lower[CHOOSE i \in 1..26 : Upper[i] = c]
  ELSE c

\* .replace(/\s+/g, ' '): every run of whitespace becomes one space.
RECURSIVE CollapseSpaces(_)
CollapseSpaces(s) ==
  IF Len(s) < 2 THEN s
  ELSE IF IsSpace(s[1]) /\ IsSpace(s[2]) THEN CollapseSpaces(Tail(s))
  ELSE <<s[1]>> \o CollapseSpaces(Tail(s))

\* .toLowerCase().replace(/[_-]/g, ' ')
RECURSIVE LowerAndSpace(_)
LowerAndSpace(s) ==
  IF s = <<>> THEN <<>>
  ELSE <<IF ToLower(Head(s)) \in {"_", "-"} THEN " " ELSE ToLower(Head(s))>>
         \o LowerAndSpace(Tail(s))

normalizeHeaderForMap(key) == Trim(CollapseSpaces(LowerAndSpace(key)))

\* .replace(/\s+/g, '_')
RECURSIVE Underscored(_)
Underscored(s) ==
  IF s = <<>> THEN <<>>
  ELSE IF IsSpace(Head(s))
       THEN <<"_">> \o Underscored(TrimLeft(Tail(s)))
       ELSE <<Head(s)>> \o Underscored(Tail(s))

\* HEADER_MAP is an object literal, so HEADER_MAP[norm] also finds what the
\* literal inherits from Object.prototype.  Of those names only this one
\* is left as it is by normalizeHeaderForMap (the others hold a capital
\* letter or an underscore); its value is the function Object, which is
\* truthy and, used as the property name of line 228, becomes this string.
InheritedNames == {<<"c", "o", "n", "s", "t", "r", "u", "c", "t", "o", "r">>}
ObjectAsKey == <<"f", "u", "n", "c", "t", "i", "o", "n", " ", "O", "b", "j", "e", "c", "t", "(", ")", " ", "{", " ", "[", "n", "a", "t", "i", "v", "e", " ", "c", "o", "d", "e", "]", " ", "}">>

\* The alias table with one more entry: the percentage column of the sheet
\* read as the present count.
CanonicalName_PercentageAlias(h) ==
  LET norm == normalizeHeaderForMap(h)
  IN  IF norm = <<"a", "t", "t", "e", "n", "d", "a", "n", "c", "e", " ", "p", "e", "r", "c", "e", "n", "t", "a", "g", "e">>
      THEN <<"p", "r", "e", "s", "e", "n", "t", "_", "t", "o", "d", "a", "y">>
      ELSE IF norm \in DOMAIN HEADER_MAP
           THEN HEADER_MAP[norm]
           ELSE IF norm \in InheritedNames
                THEN ObjectAsKey
                ELSE Underscored(norm)

\* HEADER_MAP[norm] || norm.replace(/\s+/g, '_')
CanonicalName(h) ==
  LET norm == normalizeHeaderForMap(h)
  IN  IF norm \in DOMAIN HEADER_MAP
      THEN HEADER_MAP[norm]
      ELSE IF norm \in InheritedNames
           THEN ObjectAsKey
           ELSE Underscored(norm)

\* index[mapped] = i for every header in order: the last column of a name
\* wins.  Positions are the script's 0-based column numbers.
RECURSIVE IndexFrom(_, _, _)
IndexFrom(hs, i, index) ==
  IF i > Len(hs) THEN index
  ELSE IndexFrom(hs, i + 1, (CanonicalName(hs[i]) :> (i - 1)) @@ index)

buildHeaderIndex(hs) == IndexFrom(hs, 1, <<>>)

\* ---------------------------------------------------------------- rows
StrFields == {"register_no", "name", "father_name", "mother_name", "address",
              "class", "year", "department", "email", "phone_number",
              "profile_image_url"}
NumFields == {"cia_1_mark", "cia_2_mark", "present_today", "leave_taken"}
AcademicKeys == NumFields \cup {"attendance_percentage"}
ProfileFields == {"name", "father_name", "mother_name", "address", "class",
                  "year", "department"}
Columns == StrFields \cup AcademicKeys

\* row[idx]: the cell, or undefined past the end of a short row.
Cell(row, idx) == IF idx + 1 <= Len(row) THEN Str(row[idx + 1]) ELSE Undefined

getStrOrEmpty(headerIndex, row, key) ==
  LET val == IF FieldName[key] \in DOMAIN headerIndex
             THEN Cell(row, headerIndex[FieldName[key]])
             ELSE Str(<<>>)
  IN  IF val.k = "str" THEN Str(Trim(val.s)) ELSE Str(<<>>)

getNumOrNull(headerIndex, row, key) ==
  IF FieldName[key] \notin DOMAIN headerIndex THEN Null
  ELSE LET raw == Cell(row, headerIndex[FieldName[key]])
       IN  IF raw.k # "str" THEN Null
           ELSE LET s == Trim(raw.s)
                IN  IF s = <<>> THEN Null
                    ELSE IF NumberOf(s).k = "num" THEN NumberOf(s) ELSE Null

\* The row as read, the department left as its own cell has it.
mapRowToStudent_NoFallback(headerIndex, row) ==
  LET className == getStrOrEmpty(headerIndex, row, "class")
      department == getStrOrEmpty(headerIndex, row, "department")
  IN  [register_no       |-> getStrOrEmpty(headerIndex, row, "register_no"),
       name              |-> getStrOrEmpty(headerIndex, row, "name"),
       father_name       |-> getStrOrEmpty(headerIndex, row, "father_name"),
       mother_name       |-> getStrOrEmpty(headerIndex, row, "mother_name"),
       address           |-> getStrOrEmpty(headerIndex, row, "address"),
       class             |-> className,
       year              |-> getStrOrEmpty(headerIndex, row, "year"),
       department        |-> department,
       cia_1_mark        |-> getNumOrNull(headerIndex, row, "cia_1_mark"),
       cia_2_mark        |-> getNumOrNull(headerIndex, row, "cia_2_mark"),
       present_today     |-> getNumOrNull(headerIndex, row, "present_today"),
       leave_taken       |-> getNumOrNull(headerIndex, row, "leave_taken"),
       email             |-> getStrOrEmpty(headerIndex, row, "email"),
       phone_number      |-> getStrOrEmpty(headerIndex, row, "phone_number"),
       profile_image_url |-> getStrOrEmpty(headerIndex, row, "profile_image_url")]

mapRowToStudent(headerIndex, row) ==
  LET className == getStrOrEmpty(headerIndex, row, "class")
      department == getStrOrEmpty(headerIndex, row, "department")
  IN  [register_no       |-> getStrOrEmpty(headerIndex, row, "register_no"),
       name              |-> getStrOrEmpty(headerIndex, row, "name"),
       father_name       |-> getStrOrEmpty(headerIndex, row, "father_name"),
       mother_name       |-> getStrOrEmpty(headerIndex, row, "mother_name"),
       address           |-> getStrOrEmpty(headerIndex, row, "address"),
       class             |-> className,
       year              |-> getStrOrEmpty(headerIndex, row, "year"),
       department        |-> IF ~Truthy(department) /\ Truthy(className)
                             THEN className ELSE department,
       cia_1_mark        |-> getNumOrNull(headerIndex, row, "cia_1_mark"),
       cia_2_mark        |-> getNumOrNull(headerIndex, row, "cia_2_mark"),
       present_today     |-> getNumOrNull(headerIndex, row, "present_today"),
       leave_taken       |-> getNumOrNull(headerIndex, row, "leave_taken"),
       email             |-> getStrOrEmpty(headerIndex, row, "email"),
       phone_number      |-> getStrOrEmpty(headerIndex, row, "phone_number"),
       profile_image_url |-> getStrOrEmpty(headerIndex, row, "profile_image_url")]

validateStudent(row) ==
  {w \in {"register_no", "name", "department"} : ~Truthy(Get(row, w))}

\* The quotient cut off instead of rounded.
RoundDiv_Truncate(num, den) == num \div den

\* Math.round(num / den) for den > 0: halves go towards plus infinity.
RoundDiv(num, den) == (2 * num + den) \div (2 * den)

\* deriveAttendance, in hundredths of a percent.  row.present_today in the
\* quotient is read without "|| 0"; null and undefined there count as 0
\* only through the guard, which makes the quotient 0 as well.
deriveAttendance(row) ==
  LET total == OrZero(Get(row, "present_today")) + OrZero(Get(row, "leave_taken"))
  IN  IF total > 0
      THEN RoundDiv(OrZero(Get(row, "present_today")) * 10000, total)
      ELSE 0

\* ---------------------------------------------------------------- objects
\* delete obj[k] for every k in ks
Without(obj, ks) == [f \in DOMAIN obj \ ks |-> obj[f]]

\* obj[k] = v
With(obj, k, v) == [f \in DOMAIN obj \cup {k} |-> IF f = k THEN v ELSE obj[f]]

\* The test written with undefined in place of null.
hasAcademicData_NotUndefined(x) == \E f \in NumFields : Get(x, f) # Undefined

\* x.cia_1_mark !== null || x.cia_2_mark !== null || x.present_today !== null
\* || x.leave_taken !== null.  A property that is not there reads as
\* undefined, and undefined !== null is true.
hasAcademicData(x) == \E f \in NumFields : Get(x, f) # Null

\* ---------------------------------------------------------------- store
\* batchSize of upsertStudents is 500 in the script; the model scales it down
\* so that a sheet of MaxRows rows spans several chunks.
batchSize == 1

EmptyRecord == [c \in Columns |-> Null]

\* The upsert with duplicates ignored: a payload whose key is stored
\* already changes nothing.
UpsertOne_IgnoreDuplicates(st, payload) ==
  LET key == payload["register_no"].s
      new == [c \in Columns |-> IF c \in DOMAIN payload THEN payload[c] ELSE Null]
  IN  IF key \in DOMAIN st THEN st
      ELSE [k \in DOMAIN st \cup {key} |-> IF k = key THEN new ELSE st[k]]

\* upsert of one payload with onConflict register_no, as the destination is
\* required to do it: insert the row when the key is new (columns the payload
\* does not list are NULL), else overwrite the columns the payload lists and
\* keep the others.
UpsertOne(st, payload) ==
  LET key == payload["register_no"].s
      old == IF key \in DOMAIN st THEN st[key] ELSE EmptyRecord
      new == [c \in Columns |-> IF c \in DOMAIN payload THEN payload[c] ELSE old[c]]
  IN  [k \in DOMAIN st \cup {key} |-> IF k = key THEN new ELSE st[k]]

\* .upsert(batch, { onConflict: 'register_no' }), payloads applied in order.
RECURSIVE UpsertBatch(_, _)
UpsertBatch(st, batch) ==
  IF batch = <<>> THEN st
  ELSE UpsertBatch(UpsertOne(st, Head(batch)), Tail(batch))

\* .delete().in('register_no', keys)
DeleteIn(st, keys) == [k \in DOMAIN st \ keys |-> st[k]]

\* ---------------------------------------------------------------- pipeline
\* Lines 418-447 for one normalized row with a key: trim every string, then
\* drop the academic group or add the derived percentage.
PrepareRow(row) ==
  LET trimmed == [f \in DOMAIN row |->
                    IF row[f].k = "str" THEN Str(Trim(row[f].s)) ELSE row[f]]
  IN  IF ~hasAcademicData(trimmed)
      THEN Without(trimmed, AcademicKeys)
      ELSE With(trimmed, "attendance_percentage", Num(deriveAttendance(trimmed)))

\* Every warning of validateStudent taken as a reason to skip the row.
IsFailedRow_AnyWarning(row) == validateStudent(row) # {}

\* The row is pushed to failedRows and skipped.
IsFailedRow(row) == ~Truthy(Str(Trim(Get(row, "register_no").s)))

\* rows.map((r, i) => mapRowToStudent(headerIndex, r, i + 2))
RECURSIVE MapRows(_, _)
MapRows(headerIndex, rs) ==
  IF rs = <<>> THEN <<>>
  ELSE <<mapRowToStudent(headerIndex, Head(rs))>> \o MapRows(headerIndex, Tail(rs))

\* The loop of lines 418-447 from position n on: the rows pushed to
\* validRows and the row numbers (idx + 2) pushed to failedRows.
RECURSIVE SplitRows(_, _, _)
SplitRows(normalized, n, acc) ==
  IF n > Len(normalized) THEN acc
  ELSE IF IsFailedRow(normalized[n])
       THEN SplitRows(normalized, n + 1,
                      [valid |-> acc.valid, failed |-> Append(acc.failed, n + 1)])
       ELSE SplitRows(normalized, n + 1,
                      [valid |-> Append(acc.valid, PrepareRow(normalized[n])),
                       failed |-> acc.failed])

\* The payload without the two contact deletions.
BuildPayload_KeepContact(s) ==
  IF ~hasAcademicData(s)
  THEN Without(s, AcademicKeys)
  ELSE With(s, "attendance_percentage",
            Num(deriveAttendance(
                  [present_today |-> Num(OrZero(Get(s, "present_today"))),
                   leave_taken   |-> Num(OrZero(Get(s, "leave_taken")))])))

\* The contact deletions extended to every blank string of the row.
BuildPayload_OmitBlankStrings(s) ==
  LET withAcademic ==
        IF ~hasAcademicData(s)
        THEN Without(s, AcademicKeys)
        ELSE With(s, "attendance_percentage",
                  Num(deriveAttendance(
                        [present_today |-> Num(OrZero(Get(s, "present_today"))),
                         leave_taken   |-> Num(OrZero(Get(s, "leave_taken")))])))
  IN  Without(withAcademic,
              {f \in DOMAIN withAcademic \ {"register_no"} :
                 withAcademic[f].k = "str" /\ Trim(withAcademic[f].s) = <<>>})

\* The percentage written only when both counts are there.
BuildPayload_NeedsBothCounts(s) ==
  LET bothCounts == \A f \in {"present_today", "leave_taken"} : Get(s, f).k = "num"
      withAcademic ==
        IF ~hasAcademicData(s)
        THEN Without(s, AcademicKeys)
        ELSE IF ~bothCounts
             THEN Without(s, {"attendance_percentage"})
             ELSE With(s, "attendance_percentage",
                       Num(deriveAttendance(
                             [present_today |-> Num(OrZero(Get(s, "present_today"))),
                              leave_taken   |-> Num(OrZero(Get(s, "leave_taken")))])))
      blank(p, f) == f \in DOMAIN p /\ p[f].k = "str" /\ Trim(p[f].s) = <<>>
      noEmail == IF blank(withAcademic, "email")
                 THEN Without(withAcademic, {"email"}) ELSE withAcademic
  IN  IF blank(noEmail, "phone_number")
      THEN Without(noEmail, {"phone_number"}) ELSE noEmail

\* The payload upsertStudents builds for one of its rows (lines 312-339).
BuildPayload(s) ==
  LET withAcademic ==
        IF ~hasAcademicData(s)
        THEN Without(s, AcademicKeys)
        ELSE With(s, "attendance_percentage",
                  Num(deriveAttendance(
                        [present_today |-> Num(OrZero(Get(s, "present_today"))),
                         leave_taken   |-> Num(OrZero(Get(s, "leave_taken")))])))
      blank(p, f) == f \in DOMAIN p /\ p[f].k = "str" /\ Trim(p[f].s) = <<>>
      noEmail == IF blank(withAcademic, "email")
                 THEN Without(withAcademic, {"email"}) ELSE withAcademic
  IN  IF blank(noEmail, "phone_number")
      THEN Without(noEmail, {"phone_number"}) ELSE noEmail

\* Array.from(new Set(sheetRegisterNos.map(trim).filter(nonblank)))
uniqueNos(sheetRegisterNos) ==
  {Trim(sheetRegisterNos[n]) : n \in 1..Len(sheetRegisterNos)} \ {<<>>}

\* The filter dropped: every stored key counts as missing.
missingNos_All(st, unique) == {Trim(k) : k \in DOMAIN st} \ {<<>>}

\* The filter without its negation: the keys the sheet still has.
missingNos_Inverted(st, unique) ==
  {Trim(k) : k \in DOMAIN st} \cap unique

\* existing.map(r => trim(r.register_no)).filter(nonblank).filter(not in uniqueNos)
missingNos(st, unique) ==
  {Trim(k) : k \in DOMAIN st} \ ({<<>>} \cup unique)

sheetRegisterNos(valid) == [n \in 1..Len(valid) |-> valid[n]["register_no"].s]

\* ---------------------------------------------------------------- csv
\* .replace(/\r\n/g, '\n').replace(/\r/g, '\n'): a line feed that follows
\* a carriage return goes, and every carriage return becomes a line feed.
NormalizeNewlines(t) ==
  LET kept == SelectSeq([n \in 1..Len(t) |-> n],
                        LAMBDA n : ~(t[n] = "\n" /\ n > 1 /\ t[n - 1] = "\r"))
  IN  [k \in 1..Len(kept) |-> IF t[kept[k]] = "\r" THEN "\n" ELSE t[kept[k]]]

\* .split('\n'): the stretches between the line feeds.
SplitLines(t) ==
  LET breaks == SelectSeq([n \in 1..Len(t) |-> n], LAMBDA n : t[n] = "\n")
      first(k) == IF k = 1 THEN 1 ELSE breaks[k - 1] + 1
      last(k) == IF k > Len(breaks) THEN Len(t) ELSE breaks[k] - 1
  IN  [k \in 1..(Len(breaks) + 1) |-> SubSeq(t, first(k), last(k))]

\* The loop over the characters of a line (lines 157-170) from position n
\* up to the comma that ends the cell, or to the end of the line.
RECURSIVE ReadCell(_, _, _, _)
ReadCell(line, n, current, inQuotes) ==
  IF n > Len(line)
  THEN [cell |-> current, next |-> n, inQuotes |-> inQuotes, ended |-> TRUE]
  ELSE IF line[n] = "\"" /\ n + 1 <= Len(line) /\ line[n + 1] = "\""
       THEN ReadCell(line, n + 2, Append(current, "\""), inQuotes)
  ELSE IF line[n] = "\""
       THEN ReadCell(line, n + 1, current, ~inQuotes)
  ELSE IF line[n] = "," /\ ~inQuotes
       THEN [cell |-> current, next |-> n + 1, inQuotes |-> inQuotes, ended |-> FALSE]
  ELSE ReadCell(line, n + 1, Append(current, line[n]), inQuotes)

\* The same loop cell after cell, and the push of the last cell (line 171).
RECURSIVE ParseLine(_, _, _, _)
ParseLine(line, n, inQuotes, result) ==
  LET read == ReadCell(line, n, <<>>, inQuotes)
  IN  IF read.ended THEN Append(result, read.cell)
      ELSE ParseLine(line, read.next, read.inQuotes, Append(result, read.cell))

RECURSIVE ParseLines(_)
ParseLines(lines) ==
  IF lines = <<>> THEN <<>>
  ELSE <<ParseLine(Head(lines), 1, FALSE, <<>>)>> \o ParseLines(Tail(lines))

RECURSIVE TrimAll(_)
TrimAll(cells) ==
  IF cells = <<>> THEN <<>> ELSE <<Trim(Head(cells))>> \o TrimAll(Tail(cells))

\* parseCSV of a text with at least one non-empty line.
parseCSV(csvText) ==
  LET lines == SelectSeq(SplitLines(NormalizeNewlines(csvText)),
                         LAMBDA l : Len(l) > 0)
      parsed == ParseLines(lines)
  IN  [headers |-> TrimAll(Head(parsed)), rows |-> Tail(parsed)]

\* ---------------------------------------------------------------- fetch
\* Defaults of fetchWithRetry.
maxRetries == 3
backoffMs == 500

\* The credentials of the environment: a service account given as a key
\* file or as inline JSON, an API key.
Configs == [sa : {"none", "path", "json"}, apiKey : BOOLEAN]

\* The API key tried before the service account.
ChooseStrategy_ApiKeyFirst(cfg) ==
  IF cfg.apiKey THEN "api" ELSE IF cfg.sa # "none" THEN "sa" ELSE "csv"

\* The branch of lines 383-399 the run takes.
ChooseStrategy(cfg) ==
  IF cfg.sa # "none" THEN "sa" ELSE IF cfg.apiKey THEN "api" ELSE "csv"

\* The same delay after every failure.
BackoffDelay_Constant(failures) == backoffMs

\* backoffMs * attempt, attempt being the number of failures so far.
BackoffDelay(failures) == backoffMs * failures

\* One attempt more than maxRetries.
RetriesExhausted_OneMore(failures) == failures > maxRetries

\* attempt >= maxRetries
RetriesExhausted(failures) == failures >= maxRetries

\* What the values endpoint answers for the range: the header row and the
\* data rows, nothing for a range without a filled cell.
SheetValues(src) == IF src.headers = <<>> THEN <<>> ELSE <<src.headers>> \o src.rows

\* !values || values.length === 0
IsEmptyResult(values) == values = <<>>

\* One row of the CSV export: the cells up to the width of the sheet,
\* separated by commas.  No cell of the sheets modelled needs quoting.
RECURSIVE ExportCells(_, _, _)
ExportCells(row, c, width) ==
  IF c > width THEN <<>>
  ELSE (IF c <= Len(row) THEN row[c] ELSE <<>>)
       \o (IF c < width THEN <<",">> ELSE <<>>)
       \o ExportCells(row, c + 1, width)

RECURSIVE ExportRows(_, _)
ExportRows(rs, width) ==
  IF rs = <<>> THEN <<>>
  ELSE ExportCells(Head(rs), 1, width) \o <<"\r", "\n">> \o ExportRows(Tail(rs), width)

\* The text the CSV export endpoint answers: the text the source names, or
\* for a sheet given by its cells their plain export, empty for a sheet
\* without a filled cell.
ExportCSV(src) ==
  IF "text" \in DOMAIN src THEN src.text
  ELSE ExportRows(SheetValues(src), Len(src.headers))

\* ---------------------------------------------------------------- inputs
\* The header row of the sheets the runs pull.
SheetHeaders == <<
  <<"R", "e", "g", " ", "N", "o">>,
  <<"N", "a", "m", "e">>,
  <<"F", "a", "t", "h", "e", "r", " ", "N", "a", "m", "e">>,
  <<"M", "o", "t", "h", "e", "r", " ", "N", "a", "m", "e">>,
  <<"A", "d", "d", "r", "e", "s", "s">>,
  <<"C", "l", "a", "s", "s">>,
  <<"Y", "e", "a", "r">>,
  <<"D", "e", "p", "a", "r", "t", "m", "e", "n", "t">>,
  <<"C", "I", "A", "1">>,
  <<"C", "I", "A", "2">>,
  <<"P", "r", "e", "s", "e", "n", "t", " ", "T", "o", "d", "a", "y">>,
  <<"L", "e", "a", "v", "e", " ", "T", "a", "k", "e", "n">>,
  <<"E", "m", "a", "i", "l">>,
  <<"P", "h", "o", "n", "e">>,
  <<"A", "t", "t", "e", "n", "d", "a", "n", "c", "e", " ", "P", "e", "r", "c", "e", "n", "t", "a", "g", "e">>
>>

\* every column filled; 2 present, 1 leave (66.67 after rounding)
RowFull == <<<<"A">>, <<"N">>, <<"F">>, <<"M">>, <<"X">>, <<"C">>, <<"Y">>, <<"D">>, <<"5">>, <<"7">>, <<"2">>, <<"1">>, <<"e">>, <<"p">>, <<"5", "0">>>>
\* a key with a leading space and nothing else: a ragged row, as the
\* API drops trailing empty cells
RowSparse == <<<<" ", "A">>>>
\* a key with a trailing space; class but no department; only cia_2 of
\* the academic group
RowPartial == <<<<"A", " ">>, <<>>, <<"F">>, <<>>, <<>>, <<"C">>, <<>>, <<>>, <<>>, <<"7">>, <<>>, <<>>, <<"e">>, <<>>, <<"5", "0">>>>
\* a non-numeric mark and a negative leave count
RowNegative == <<<<"B">>, <<"N">>, <<>>, <<>>, <<>>, <<>>, <<>>, <<"D">>, <<"x">>, <<>>, <<"3">>, <<"-", "1">>, <<>>, <<"p">>, <<>>>>
\* a whitespace-only key with everything else filled
RowBlankKey == <<<<" ">>, <<"N">>, <<"F">>, <<"M">>, <<"X">>, <<"C">>, <<"Y">>, <<"D">>, <<"5">>, <<"7">>, <<"1">>, <<"2">>, <<"e">>, <<"p">>, <<>>>>

DataRows == {RowFull, RowSparse, RowPartial, RowNegative, RowBlankKey}

\* Every sheet of at most MaxRows data rows over DataRows.
RECURSIVE SeqsUpTo(_, _)
SeqsUpTo(S, n) ==
  IF n = 0 THEN {<<>>}
  ELSE LET shorter == SeqsUpTo(S, n - 1)
       IN  shorter \cup {Append(q, x) : q \in {p \in shorter : Len(p) = n - 1}, x \in S}

Sources == [headers : {SheetHeaders}, rows : SeqsUpTo(DataRows, MaxRows)]

\* Sheets of one keyed row that differ in the cells the attendance
\* derivation reads (a mark, the two counts) and in the percentage cell.
MarkCells == {<<>>, <<"5">>}
PresentCells == {<<>>, <<"0">>, <<"1">>, <<"2">>, <<"1", "8">>, <<"x">>}
LeaveCells == {<<>>, <<"0">>, <<"1">>, <<"2">>, <<"3">>, <<"3", "1">>, <<"-", "1">>, <<"-", "3">>}
PercentCells == {<<>>, <<"5", "0">>, <<"9", "9">>}

AttendanceRow(mark, present, leave, percent) ==
  <<<<"A">>, <<"N">>, <<>>, <<>>, <<>>, <<>>, <<>>, <<"D">>, mark, <<>>,
    present, leave, <<>>, <<>>, percent>>

AttendanceSources ==
  [headers : {SheetHeaders},
   rows : {<<AttendanceRow(c, p, l, a)>> :
             c \in MarkCells, p \in PresentCells, l \in LeaveCells, a \in PercentCells}]

\* The labels of the header rows of the header runs: three spellings of
\* the key column, a field of the table, and two labels the alias table
\* does not have.
MaxHeaders == 3
LabelRegNo == <<"R", "e", "g", " ", "N", "o">>
LabelRegisterNo == <<"R", "E", "G", "I", "S", "T", "E", "R", "_", "N", "O">>
LabelRegistrationNumber == <<"R", "e", "g", "i", "s", "t", "r", "a", "t", "i", "o", "n", " ", "N", "u", "m", "b", "e", "r">>
LabelName == <<"N", "a", "m", "e">>
LabelBloodGroup == <<"B", "l", "o", "o", "d", " ", " ", "G", "r", "o", "u", "p">>
LabelConstructor == <<"C", "o", "n", "s", "t", "r", "u", "c", "t", "o", "r">>
HeaderLabels == {LabelRegNo, LabelRegisterNo, LabelRegistrationNumber,
                 LabelName, LabelBloodGroup, LabelConstructor}

\* One data row under the header row, a different cell in each column.
HeaderRowCells == <<<<"A">>, <<"B">>, <<"C">>, <<"D">>>>
HeaderSources ==
  {[headers |-> hs, rows |-> <<SubSeq(HeaderRowCells, 1, Len(hs))>>] :
     hs \in SeqsUpTo(HeaderLabels, MaxHeaders) \ {<<>>}}

\* A sheet without a filled cell.
EmptySheet == [headers |-> <<>>, rows |-> <<>>]

\* The sheets the runs of the fetch stage pull: the empty one, and short
\* ones over two keyed rows and a keyless one.
FetchRows == {RowFull, RowNegative, RowBlankKey}
FetchSources ==
  {EmptySheet} \cup [headers : {SheetHeaders}, rows : SeqsUpTo(FetchRows, MaxRows)]

\* The cells of the quoted texts: up to MaxCellLen characters out of a
\* letter, the comma and the quote character.
MaxCellLen == 2
CsvAlphabet == {"a", ",", "\""}
CsvCells == SeqsUpTo(CsvAlphabet, MaxCellLen)
CsvHeaders == <<SheetHeaders[1], SheetHeaders[2]>>
CsvRows == [1..Len(CsvHeaders) -> CsvCells]

\* A cell in quotes, each quote character of it doubled.
RECURSIVE Doubled(_)
Doubled(cell) ==
  IF cell = <<>> THEN <<>>
  ELSE (IF Head(cell) = "\"" THEN <<"\"", "\"">> ELSE <<Head(cell)>>)
       \o Doubled(Tail(cell))

QuoteCell(cell) == <<"\"">> \o Doubled(cell) \o <<"\"">>

RECURSIVE QuoteLine(_)
QuoteLine(cells) ==
  IF cells = <<>> THEN <<>>
  ELSE QuoteCell(Head(cells))
       \o (IF Len(cells) > 1 THEN <<",">> ELSE <<>>)
       \o QuoteLine(Tail(cells))

\* The text of a header line and one data line, every cell quoted.
QuotedText(hs, cells) ==
  QuoteLine(hs) \o <<"\r", "\n">> \o QuoteLine(cells) \o <<"\r", "\n">>

\* The same text cut short of the quote that closes its last cell.
BrokenText(hs, cells) ==
  LET line == QuoteLine(cells)
  IN  QuoteLine(hs) \o <<"\r", "\n">> \o SubSeq(line, 1, Len(line) - 1)
      \o <<"\r", "\n">>

\* The sources of the CSV endpoint: the empty sheet, and for every row of
\* cells its fully quoted text and its text with an unterminated quote.
CsvSources ==
  {EmptySheet}
  \cup {[headers |-> CsvHeaders, rows |-> <<cells>>,
         text |-> QuotedText(CsvHeaders, cells)] : cells \in CsvRows}
  \cup {[headers |-> CsvHeaders, rows |-> <<cells>>,
         text |-> BrokenText(CsvHeaders, cells)] : cells \in CsvRows}

\* The table a completed run on the sheet <<RowFull>> leaves behind when it
\* starts from an empty table.
SeedStore ==
  LET headerIndex == buildHeaderIndex(SheetHeaders)
  IN  UpsertBatch(<<>>,
        <<BuildPayload(PrepareRow(mapRowToStudent(headerIndex, RowFull)))>>)

\* The store the first run finds: a fresh table, or one a run has filled.
InitialStores == {<<>>, SeedStore}

\* ---------------------------------------------------------------- state
VARIABLES
  store,       \* the students table: register_no -> row of Columns
  source,      \* the sheet as the remote end holds it during this run
  pc,          \* where the process is: Idle, Fetching, Normalizing,
               \* Deleting, Upserting, Summarizing, Done, Aborted
  headers,     \* syncGoogleSheet: headers
  rows,        \* syncGoogleSheet: rows
  totalRows,   \* syncGoogleSheet: totalRows
  failedRows,  \* syncGoogleSheet: failedRows (the row numbers)
  validRows,   \* syncGoogleSheet: validRows
  i,           \* upsertStudents: loop index
  upserted,    \* upsertStudents: upserted
  summary,     \* the summary returned by syncGoogleSheet, Null-like before
  exitCode,    \* process.exit code, -1 while the process has not exited
  requests,    \* the calls this run has issued to the store, in order
  store0,      \* the store when this run started
  prevStatus,  \* how the previous run ended (Idle, Done, Aborted)
  sameSource,  \* this run pulls the very sheet the previous run pulled
  runs,        \* runs started so far
  config,      \* the credentials the process finds in its environment
  strategy,    \* the fetch branch taken: none, sa, api, csv
  fetchPc,     \* where the fetch stands: Branch, Request, Body, Off
  attempt,     \* fetchWithRetry: attempt
  calls,       \* the network calls of this run, in order, with their outcome
  waits,       \* the delays fetchWithRetry has slept, in ms, in order
  error,       \* the error the fetch stage threw, NoError when none
  searchTerm,      \* StudentSearch: searchTerm
  suggestions,     \* StudentSearch: suggestions (the rows, as a set)
  selectedStudent, \* StudentSearch: selectedStudent (a row or Null)
  loading,         \* StudentSearch: loading
  showSuggestions, \* StudentSearch: showSuggestions
  notFound,        \* StudentSearch: notFound
  lookups,     \* the calls of handleSearch that got to their query, in the
               \* order they were started: key, done, data
  queries      \* the patterns of the suggestion queries in flight

vars == <<store, source, pc, headers, rows, totalRows, failedRows, validRows,
          i, upserted, summary, exitCode, requests, store0, prevStatus,
          sameSource, runs, config, strategy, fetchPc, attempt, calls, waits,
          error, searchTerm, suggestions, selectedStudent, loading,
          showSuggestions, notFound, lookups, queries>>

\* The state of the fetch stage.
net == <<config, strategy, fetchPc, attempt, calls, waits, error>>

locals == <<headers, rows, totalRows, failedRows, validRows, i, upserted>>

\* The state of the search page, and the state of the sync script.
search == <<searchTerm, suggestions, selectedStudent, loading, showSuggestions,
            notFound, lookups, queries>>
sync == <<store, source, pc, locals, summary, exitCode, requests, store0,
          prevStatus, sameSource, runs, net>>

BlankSheet == [headers |-> SheetHeaders, rows |-> <<>>]

NoSummary == [total_rows |-> -1, processed_rows |-> -1, failed_rows |-> -1]

NoError == [kind |-> "none", at |-> 0]

\* An environment without Google credentials: the CSV export.
NoCredentials == [sa |-> "none", apiKey |-> FALSE]

\* StudentSearch as it is mounted (the useState calls of lines 7-12), with
\* no query under way.
InitialRender ==
  /\ searchTerm = <<>>
  /\ suggestions = {}
  /\ selectedStudent = Null
  /\ loading = FALSE
  /\ showSuggestions = FALSE
  /\ notFound = FALSE
  /\ lookups = <<>>
  /\ queries = {}

Init ==
  /\ store \in InitialStores
  /\ source = BlankSheet
  /\ pc = "Idle"
  /\ headers = <<>>
  /\ rows = <<>>
  /\ totalRows = 0
  /\ failedRows = <<>>
  /\ validRows = <<>>
  /\ i = 0
  /\ upserted = 0
  /\ summary = NoSummary
  /\ exitCode = -1
  /\ requests = <<>>
  /\ store0 = store
  /\ prevStatus = "Idle"
  /\ sameSource = FALSE
  /\ runs = 0
  /\ config = NoCredentials
  /\ strategy = "none"
  /\ fetchPc = "Off"
  /\ attempt = 0
  /\ calls = <<>>
  /\ waits = <<>>
  /\ error = NoError
  /\ InitialRender

Req(op, keys, batch) == [op |-> op, keys |-> keys, batch |-> batch]

\* ---------------------------------------------------------------- actions
\* The scheduler starts the script.  The sheet is what the previous run
\* pulled when nobody touched it since (sameSource), else any sheet.
StartRun ==
  /\ pc = "Idle"
  /\ runs < MaxRuns
  /\ source' \in (IF sameSource THEN {source} ELSE Sources)
  /\ pc' = "Fetching"
  /\ store0' = store
  /\ runs' = runs + 1
  /\ UNCHANGED <<search, net, store, locals, summary, exitCode, requests, prevStatus,
                 sameSource>>

\* process.exit: the memory of the process is gone; the store and the sheet
\* stay.  Before the next run the sheet is either left as it is (only worth
\* telling apart after a completed run) or edited.
Exit ==
  /\ pc \in {"Done", "Aborted"}
  /\ runs < MaxRuns
  /\ \E untouched \in BOOLEAN :
       /\ untouched => pc = "Done"
       /\ sameSource' = untouched
       /\ source' = IF untouched THEN source ELSE BlankSheet
  /\ prevStatus' = pc
  /\ pc' = "Idle"
  /\ headers' = <<>>
  /\ rows' = <<>>
  /\ totalRows' = 0
  /\ failedRows' = <<>>
  /\ validRows' = <<>>
  /\ i' = 0
  /\ upserted' = 0
  /\ summary' = NoSummary
  /\ exitCode' = -1
  /\ requests' = <<>>
  /\ store0' = store
  /\ UNCHANGED <<search, net, store, runs>>

\* Lines 382-400: the values come back; row 0 is the header row.
FetchOk ==
  /\ pc = "Fetching"
  /\ headers' = [h \in 1..Len(source.headers) |-> Trim(source.headers[h])]
  /\ rows' = source.rows
  /\ pc' = "Normalizing"
  /\ UNCHANGED <<search, net, store, source, totalRows, failedRows, validRows, i, upserted,
                 summary, exitCode, requests, store0, prevStatus, sameSource, runs>>

\* Lines 401-404: the fetch throws; the entry point exits with 1.
FetchFail ==
  /\ pc = "Fetching"
  /\ pc' = "Aborted"
  /\ exitCode' = 1
  /\ UNCHANGED <<search, net, store, source, locals, summary, requests, store0, prevStatus,
                 sameSource, runs>>

\* The delete pass left out: from the split straight to the upsert.
Normalize_SkipDelete ==
  /\ pc = "Normalizing"
  /\ LET headerIndex == buildHeaderIndex(headers)
         normalized == MapRows(headerIndex, rows)
         split == SplitRows(normalized, 1, [valid |-> <<>>, failed |-> <<>>])
     IN  /\ totalRows' = Len(normalized)
         /\ failedRows' = split.failed
         /\ validRows' = split.valid
  /\ pc' = "Upserting"
  /\ UNCHANGED <<search, net, store, source, headers, rows, i, upserted, summary, exitCode,
                 requests, store0, prevStatus, sameSource, runs>>

\* Lines 407-447: header index, normalized rows, the valid/failed split.
Normalize ==
  /\ pc = "Normalizing"
  /\ LET headerIndex == buildHeaderIndex(headers)
         normalized == MapRows(headerIndex, rows)
         split == SplitRows(normalized, 1, [valid |-> <<>>, failed |-> <<>>])
     IN  /\ totalRows' = Len(normalized)
         /\ failedRows' = split.failed
         /\ validRows' = split.valid
  /\ pc' = "Deleting"
  /\ UNCHANGED <<search, net, store, source, headers, rows, i, upserted, summary, exitCode,
                 requests, store0, prevStatus, sameSource, runs>>

\* deleteMissingStudents returns normally.
DeleteMissing ==
  /\ pc = "Deleting"
  /\ LET unique == uniqueNos(sheetRegisterNos(validRows))
         missing == missingNos(store, unique)
     IN  IF unique = {}
         THEN /\ requests' = Append(requests, Req("delete_all", {}, <<>>))
              /\ store' = DeleteIn(store, DOMAIN store)
         ELSE /\ requests' = requests \o <<Req("select", {}, <<>>)>> \o
                               (IF missing = {} THEN <<>>
                                ELSE <<Req("delete_in", missing, <<>>)>>)
              /\ store' = DeleteIn(store, missing)
  /\ pc' = "Upserting"
  /\ UNCHANGED <<search, net, source, locals, summary, exitCode, store0, prevStatus,
                 sameSource, runs>>

\* The error of the delete pass ending the process with code 0.
DeleteFail_ExitZero ==
  /\ pc = "Deleting"
  /\ LET unique == uniqueNos(sheetRegisterNos(validRows))
         missing == missingNos(store, unique)
     IN  \E failing \in {"delete_all", "select", "delete_in"} :
           /\ failing = "delete_all" => unique = {}
           /\ failing = "select" => unique # {}
           /\ failing = "delete_in" => unique # {} /\ missing # {}
           /\ requests' =
                IF failing = "delete_in"
                THEN requests \o <<Req("select", {}, <<>>), Req("delete_in", missing, <<>>)>>
                ELSE Append(requests, Req(failing, {}, <<>>))
  /\ pc' = "Aborted"
  /\ exitCode' = 0
  /\ UNCHANGED <<search, net, store, source, locals, summary, store0, prevStatus,
                 sameSource, runs>>

\* One of the store calls of deleteMissingStudents reports an error.
DeleteFail ==
  /\ pc = "Deleting"
  /\ LET unique == uniqueNos(sheetRegisterNos(validRows))
         missing == missingNos(store, unique)
     IN  \E failing \in {"delete_all", "select", "delete_in"} :
           /\ failing = "delete_all" => unique = {}
           /\ failing = "select" => unique # {}
           /\ failing = "delete_in" => unique # {} /\ missing # {}
           /\ requests' =
                IF failing = "delete_in"
                THEN requests \o <<Req("select", {}, <<>>), Req("delete_in", missing, <<>>)>>
                ELSE Append(requests, Req(failing, {}, <<>>))
  /\ pc' = "Aborted"
  /\ exitCode' = 1
  /\ UNCHANGED <<search, net, store, source, locals, summary, store0, prevStatus,
                 sameSource, runs>>

\* students.slice(i, i + batchSize).map(...)
NextBatch ==
  LET last == IF i + batchSize < Len(validRows) THEN i + batchSize ELSE Len(validRows)
  IN  [n \in 1..(last - i) |-> BuildPayload(validRows[i + n])]

\* One pass of the loop of upsertStudents, the upsert succeeding.
UpsertChunk ==
  /\ pc = "Upserting"
  /\ i < Len(validRows)
  /\ requests' = Append(requests, Req("upsert", {}, NextBatch))
  /\ store' = UpsertBatch(store, NextBatch)
  /\ upserted' = upserted + Len(NextBatch)
  /\ i' = i + batchSize
  /\ UNCHANGED <<search, net, source, pc, headers, rows, totalRows, failedRows, validRows,
                 summary, exitCode, store0, prevStatus, sameSource, runs>>

\* The failure of a chunk undoing what the run has written so far.
UpsertFail_RollBack ==
  /\ pc = "Upserting"
  /\ i < Len(validRows)
  /\ requests' = Append(requests, Req("upsert", {}, NextBatch))
  /\ store' = store0
  /\ pc' = "Aborted"
  /\ exitCode' = 1
  /\ UNCHANGED <<search, net, source, locals, summary, store0, prevStatus,
                 sameSource, runs>>

\* The upsert of the chunk reports an error: upsertStudents throws.
UpsertFail ==
  /\ pc = "Upserting"
  /\ i < Len(validRows)
  /\ requests' = Append(requests, Req("upsert", {}, NextBatch))
  /\ pc' = "Aborted"
  /\ exitCode' = 1
  /\ UNCHANGED <<search, net, store, source, locals, summary, store0, prevStatus,
                 sameSource, runs>>

\* The loop is over: upsertStudents returns { upserted }.
FinishUpsert ==
  /\ pc = "Upserting"
  /\ i >= Len(validRows)
  /\ pc' = "Summarizing"
  /\ UNCHANGED <<search, net, store, source, locals, summary, exitCode, requests, store0,
                 prevStatus, sameSource, runs>>

\* Lines 465-487: the summary, then process.exit(0).
Summarize ==
  /\ pc = "Summarizing"
  /\ summary' = [total_rows |-> totalRows, processed_rows |-> upserted,
                 failed_rows |-> Len(failedRows)]
  /\ pc' = "Done"
  /\ exitCode' = 0
  /\ UNCHANGED <<search, net, store, source, locals, requests, store0, prevStatus,
                 sameSource, runs>>

\* ----------------------------------------------------- the fetch, stepwise
\* What no step of the fetch stage touches.
beyondFetch == <<store, source, totalRows, failedRows, validRows, i, upserted,
                 summary, requests, store0, prevStatus, sameSource, runs,
                 search>>

Call(s, outcome, n) == [strategy |-> s, outcome |-> outcome, at |-> n]

\* The catch of lines 401-404 logging the error and going on.
AbortFetch_Swallow(err) ==
  /\ error' = err
  /\ pc' = "Normalizing"
  /\ fetchPc' = "Off"
  /\ UNCHANGED <<exitCode, headers, rows>>

\* An error leaves the try of lines 382-400: logged, thrown again, and the
\* entry point exits with 1.
AbortFetch(err) ==
  /\ error' = err
  /\ pc' = "Aborted"
  /\ fetchPc' = "Off"
  /\ exitCode' = 1
  /\ UNCHANGED <<headers, rows>>

\* values[0].map(h => String(h).trim()) and values.slice(1)
TakeValues(values) ==
  /\ headers' = TrimAll(Head(values))
  /\ rows' = Tail(values)
  /\ pc' = "Normalizing"
  /\ fetchPc' = "Off"
  /\ UNCHANGED <<exitCode, error>>

\* Lines 383-395: the branch is chosen by the credentials found.
SelectStrategy ==
  /\ pc = "Fetching"
  /\ fetchPc = "Branch"
  /\ strategy' = ChooseStrategy(config)
  /\ fetchPc' = "Request"
  /\ UNCHANGED <<pc, headers, rows, exitCode, config, attempt, calls, waits,
                 error, beyondFetch>>

\* fetchSheetValuesWithServiceAccount: the one call returns the values.
ServiceAccountValues ==
  /\ pc = "Fetching"
  /\ fetchPc = "Request"
  /\ strategy = "sa"
  /\ ~IsEmptyResult(SheetValues(source))
  /\ calls' = Append(calls, Call("sa", "ok", 1))
  /\ TakeValues(SheetValues(source))
  /\ UNCHANGED <<config, strategy, attempt, waits, beyondFetch>>

\* The call returns no values: lines 133-135 throw, line 145 throws on.
ServiceAccountEmpty ==
  /\ pc = "Fetching"
  /\ fetchPc = "Request"
  /\ strategy = "sa"
  /\ IsEmptyResult(SheetValues(source))
  /\ calls' = Append(calls, Call("sa", "ok", 1))
  /\ AbortFetch([kind |-> "empty", at |-> 1])
  /\ UNCHANGED <<config, strategy, attempt, waits, beyondFetch>>

\* The client or the call throws: a message with 401 or 403 in it is
\* replaced by the script's own (lines 137-146), any other is thrown on.
ServiceAccountThrow ==
  /\ pc = "Fetching"
  /\ fetchPc = "Request"
  /\ strategy = "sa"
  /\ \E outcome \in {"401", "403", "error"} :
       /\ calls' = Append(calls, Call("sa", outcome, 1))
       /\ AbortFetch([kind |-> (CASE outcome = "401" -> "auth failed"
                                  [] outcome = "403" -> "permission denied"
                                  [] OTHER -> outcome),
                      at |-> 1])
  /\ UNCHANGED <<config, strategy, attempt, waits, beyondFetch>>

\* fetchWithRetry: fetch answers with res.ok, the response is returned.
AttemptOk ==
  /\ pc = "Fetching"
  /\ fetchPc = "Request"
  /\ strategy \in {"api", "csv"}
  /\ calls' = Append(calls, Call(strategy, "ok", attempt + 1))
  /\ fetchPc' = "Body"
  /\ UNCHANGED <<pc, headers, rows, exitCode, config, strategy, attempt, waits,
                 error, beyondFetch>>

\* fetchWithRetry: a status that is not ok or a thrown error, with attempts
\* left: the delay is slept and the loop goes round.
AttemptRetry ==
  /\ pc = "Fetching"
  /\ fetchPc = "Request"
  /\ strategy \in {"api", "csv"}
  /\ ~RetriesExhausted(attempt + 1)
  /\ \E outcome \in {"http", "network"} :
       calls' = Append(calls, Call(strategy, outcome, attempt + 1))
  /\ attempt' = attempt + 1
  /\ waits' = Append(waits, BackoffDelay(attempt + 1))
  /\ UNCHANGED <<pc, headers, rows, exitCode, config, strategy, fetchPc, error,
                 beyondFetch>>

\* fetchWithRetry: the failure that uses up the attempts is thrown.
AttemptGiveUp ==
  /\ pc = "Fetching"
  /\ fetchPc = "Request"
  /\ strategy \in {"api", "csv"}
  /\ RetriesExhausted(attempt + 1)
  /\ \E outcome \in {"http", "network"} :
       /\ calls' = Append(calls, Call(strategy, outcome, attempt + 1))
       /\ AbortFetch([kind |-> outcome, at |-> attempt + 1])
  /\ attempt' = attempt + 1
  /\ UNCHANGED <<config, strategy, waits, beyondFetch>>

\* fetchSheetValuesAPI: the body carries the values.
ApiValues ==
  /\ pc = "Fetching"
  /\ fetchPc = "Body"
  /\ strategy = "api"
  /\ ~IsEmptyResult(SheetValues(source))
  /\ TakeValues(SheetValues(source))
  /\ UNCHANGED <<config, strategy, attempt, calls, waits, beyondFetch>>

\* fetchSheetValuesAPI: no values in the body (lines 98-100).
ApiEmpty ==
  /\ pc = "Fetching"
  /\ fetchPc = "Body"
  /\ strategy = "api"
  /\ IsEmptyResult(SheetValues(source))
  /\ AbortFetch([kind |-> "empty", at |-> attempt + 1])
  /\ UNCHANGED <<config, strategy, attempt, calls, waits, beyondFetch>>

\* fetchSheetCSV: the body is a text with something in it.
CsvText ==
  /\ pc = "Fetching"
  /\ fetchPc = "Body"
  /\ strategy = "csv"
  /\ Trim(ExportCSV(source)) # <<>>
  /\ pc' = "Parsing"
  /\ fetchPc' = "Off"
  /\ UNCHANGED <<headers, rows, exitCode, config, strategy, attempt, calls,
                 waits, error, beyondFetch>>

\* fetchSheetCSV: an empty or blank text (lines 88-90).
CsvEmpty ==
  /\ pc = "Fetching"
  /\ fetchPc = "Body"
  /\ strategy = "csv"
  /\ Trim(ExportCSV(source)) = <<>>
  /\ AbortFetch([kind |-> "empty", at |-> attempt + 1])
  /\ UNCHANGED <<config, strategy, attempt, calls, waits, beyondFetch>>

\* Lines 396-398: the text is parsed into the header row and the data rows.
ParseText ==
  /\ pc = "Parsing"
  /\ LET parsed == parseCSV(ExportCSV(source))
     IN  /\ headers' = parsed.headers
         /\ rows' = parsed.rows
  /\ pc' = "Normalizing"
  /\ UNCHANGED <<exitCode, net, beyondFetch>>

Next ==
  \/ StartRun
  \/ Exit
  \/ FetchOk
  \/ FetchFail
  \/ Normalize
  \/ DeleteMissing
  \/ DeleteFail
  \/ UpsertChunk
  \/ UpsertFail
  \/ FinishUpsert
  \/ Summarize

Spec == Init /\ [][Next]_vars

\* ------------------------------------------------- the attendance derivation
\* One run that goes through, on each sheet of AttendanceSources: the
\* derivation applied to every combination of its inputs.
InitAttendance ==
  /\ store \in InitialStores
  /\ source \in AttendanceSources
  /\ pc = "Fetching"
  /\ headers = <<>>
  /\ rows = <<>>
  /\ totalRows = 0
  /\ failedRows = <<>>
  /\ validRows = <<>>
  /\ i = 0
  /\ upserted = 0
  /\ summary = NoSummary
  /\ exitCode = -1
  /\ requests = <<>>
  /\ store0 = store
  /\ prevStatus = "Idle"
  /\ sameSource = FALSE
  /\ runs = 1
  /\ config = NoCredentials
  /\ strategy = "none"
  /\ fetchPc = "Off"
  /\ attempt = 0
  /\ calls = <<>>
  /\ waits = <<>>
  /\ error = NoError
  /\ InitialRender

NextAttendance ==
  \/ FetchOk
  \/ Normalize
  \/ DeleteMissing
  \/ UpsertChunk
  \/ FinishUpsert
  \/ Summarize

SpecAttendance == InitAttendance /\ [][NextAttendance]_vars

\* ------------------------------------------------------- the fetch stage
\* One run, its fetch taken step by step, under every set of credentials
\* and against every sheet of FetchSources.
InitFetch ==
  /\ store \in InitialStores
  /\ source \in FetchSources
  /\ pc = "Fetching"
  /\ headers = <<>>
  /\ rows = <<>>
  /\ totalRows = 0
  /\ failedRows = <<>>
  /\ validRows = <<>>
  /\ i = 0
  /\ upserted = 0
  /\ summary = NoSummary
  /\ exitCode = -1
  /\ requests = <<>>
  /\ store0 = store
  /\ prevStatus = "Idle"
  /\ sameSource = FALSE
  /\ runs = 1
  /\ config \in Configs
  /\ strategy = "none"
  /\ fetchPc = "Branch"
  /\ attempt = 0
  /\ calls = <<>>
  /\ waits = <<>>
  /\ error = NoError
  /\ InitialRender

NextFetch ==
  \/ SelectStrategy
  \/ ServiceAccountValues
  \/ ServiceAccountEmpty
  \/ ServiceAccountThrow
  \/ AttemptOk
  \/ AttemptRetry
  \/ AttemptGiveUp
  \/ ApiValues
  \/ ApiEmpty
  \/ CsvText
  \/ CsvEmpty
  \/ ParseText
  \/ Normalize
  \/ DeleteMissing
  \/ DeleteFail
  \/ UpsertChunk
  \/ UpsertFail
  \/ FinishUpsert
  \/ Summarize

SpecFetch == InitFetch /\ [][NextFetch]_vars

\* One run over each header row of HeaderSources.
InitHeaders ==
  /\ store \in InitialStores
  /\ source \in HeaderSources
  /\ pc = "Fetching"
  /\ headers = <<>>
  /\ rows = <<>>
  /\ totalRows = 0
  /\ failedRows = <<>>
  /\ validRows = <<>>
  /\ i = 0
  /\ upserted = 0
  /\ summary = NoSummary
  /\ exitCode = -1
  /\ requests = <<>>
  /\ store0 = store
  /\ prevStatus = "Idle"
  /\ sameSource = FALSE
  /\ runs = 1
  /\ config = NoCredentials
  /\ strategy = "none"
  /\ fetchPc = "Off"
  /\ attempt = 0
  /\ calls = <<>>
  /\ waits = <<>>
  /\ error = NoError
  /\ InitialRender

NextHeaders ==
  \/ FetchOk
  \/ Normalize
  \/ DeleteMissing
  \/ UpsertChunk
  \/ FinishUpsert
  \/ Summarize

SpecHeaders == InitHeaders /\ [][NextHeaders]_vars

\* One run without credentials, over the texts of the CSV endpoint.
InitCsv ==
  /\ store \in InitialStores
  /\ source \in CsvSources
  /\ pc = "Fetching"
  /\ headers = <<>>
  /\ rows = <<>>
  /\ totalRows = 0
  /\ failedRows = <<>>
  /\ validRows = <<>>
  /\ i = 0
  /\ upserted = 0
  /\ summary = NoSummary
  /\ exitCode = -1
  /\ requests = <<>>
  /\ store0 = store
  /\ prevStatus = "Idle"
  /\ sameSource = FALSE
  /\ runs = 1
  /\ config = NoCredentials
  /\ strategy = "none"
  /\ fetchPc = "Branch"
  /\ attempt = 0
  /\ calls = <<>>
  /\ waits = <<>>
  /\ error = NoError
  /\ InitialRender

NextCsv ==
  \/ SelectStrategy
  \/ AttemptOk
  \/ CsvText
  \/ CsvEmpty
  \/ ParseText
  \/ Normalize
  \/ DeleteMissing
  \/ UpsertChunk
  \/ FinishUpsert
  \/ Summarize

SpecCsv == InitCsv /\ [][NextCsv]_vars

\* --------------------------------------------------------------- search
\* StudentSearch.tsx: the page that looks one student up in the table.
\* The calls of handleSearch a behaviour follows.
MaxSearches == 2

\* The keys of the tables the page reads, the terms typed into the input.
KeyA == <<"A", "1">>
KeyB == <<"B", "2">>
SearchTerms == {KeyA, KeyB, <<" ", "B", "2">>, <<" ">>, <<>>}

StudentRow(k) ==
  [EmptyRecord EXCEPT !["register_no"] = Str(k), !["name"] = Str(<<"N">>)]
SearchStores == {[k \in {KeyA} |-> StudentRow(k)],
                 [k \in {KeyA, KeyB} |-> StudentRow(k)]}

\* .ilike('register_no', `%${q}%`): q occurs in the key, letter case aside.
LowerCase(s) == [n \in 1..Len(s) |-> ToLower(s[n])]
Matches(key, q) ==
  \E from \in 1..(Len(key) - Len(q) + 1) :
    LowerCase(SubSeq(key, from, from + Len(q) - 1)) = LowerCase(q)

\* The rows the suggestion query answers (the tables here stay below its
\* limit of 5).
SuggestionsFor(q) == {store[k] : k \in {key \in DOMAIN store : Matches(key, q)}}

\* .eq('register_no', key).single(): the row, or null when there is none.
SingleRow(key) == IF key \in DOMAIN store THEN store[key] ELSE Null

\* The effect of lines 14-21 after searchTerm has become term, with
\* fetchSuggestions up to its query (lines 23-29).  The query is sent for a
\* term whose trimmed text has 2 characters or more.
SuggestionsAsked(term) == Len(term) >= 2 /\ Len(Trim(term)) >= 2

\* handleSearch up to its query (lines 61-68), for a value that is not
\* blank.
BeginSearch(searchValue) ==
  /\ Len(lookups) < MaxSearches
  /\ Trim(searchValue) # <<>>
  /\ selectedStudent' = Null
  /\ loading' = TRUE
  /\ notFound' = FALSE
  /\ showSuggestions' = FALSE
  /\ lookups' = Append(lookups, [key |-> Trim(searchValue), done |-> FALSE,
                                 data |-> Null])

\* onChange of the input (line 129) and the effect that follows it.
ChangeTerm ==
  \E term \in SearchTerms \ {searchTerm} :
    /\ searchTerm' = term
    /\ IF SuggestionsAsked(term)
       THEN /\ queries' = queries \cup {Trim(term)}
            /\ UNCHANGED <<suggestions, showSuggestions>>
       ELSE /\ suggestions' = {}
            /\ showSuggestions' = FALSE
            /\ UNCHANGED queries
    /\ UNCHANGED <<selectedStudent, loading, notFound, lookups, sync>>

\* fetchSuggestions from its answer on (lines 55-58): an answer without
\* data changes nothing.
ResolveSuggestions ==
  \E q \in queries, ok \in BOOLEAN :
    /\ queries' = queries \ {q}
    /\ IF ok
       THEN /\ suggestions' = SuggestionsFor(q)
            /\ showSuggestions' = TRUE
       ELSE UNCHANGED <<suggestions, showSuggestions>>
    /\ UNCHANGED <<searchTerm, selectedStudent, loading, notFound, lookups, sync>>

\* Enter in the input (line 130): handleSearch() on the term typed.
PressEnter ==
  /\ BeginSearch(searchTerm)
  /\ UNCHANGED <<searchTerm, suggestions, queries, sync>>

\* The Search button (lines 151-153), disabled while loading.
ClickSearch ==
  /\ ~loading
  /\ BeginSearch(searchTerm)
  /\ UNCHANGED <<searchTerm, suggestions, queries, sync>>

\* handleSuggestionClick on one of the rows shown (lines 109-113): the term
\* becomes its key, handleSearch is called with the key, and the effect
\* of the changed term asks for suggestions again.
SuggestionClick ==
  /\ showSuggestions
  /\ \E student \in suggestions :
       LET key == student["register_no"].s
       IN  /\ searchTerm' = key
           /\ BeginSearch(key)
           /\ queries' = IF key # searchTerm /\ SuggestionsAsked(key)
                         THEN queries \cup {Trim(key)} ELSE queries
           /\ suggestions' = IF key # searchTerm /\ ~SuggestionsAsked(key)
                             THEN {} ELSE suggestions
  /\ UNCHANGED sync

\* handleSearch from its answer on (lines 94-106), for one of the lookups
\* under way: a failed query answers without data, as a missing row does.
ResolveLookup ==
  \E n \in DOMAIN lookups, ok \in BOOLEAN :
    /\ ~lookups[n].done
    /\ LET data == IF ok THEN SingleRow(lookups[n].key) ELSE Null
       IN  /\ lookups' = [lookups EXCEPT ![n] = [key |-> lookups[n].key,
                                                    done |-> TRUE,
                                                    data |-> data]]
           /\ IF data # Null
              THEN /\ selectedStudent' = data
                   /\ UNCHANGED notFound
              ELSE /\ selectedStudent' = Null
                   /\ notFound' = TRUE
    /\ loading' = FALSE
    /\ UNCHANGED <<searchTerm, suggestions, showSuggestions, queries, sync>>

\* onBack of the profile shown (line 177).
Back ==
  /\ selectedStudent # Null
  /\ selectedStudent' = Null
  /\ UNCHANGED <<searchTerm, suggestions, loading, showSuggestions, notFound,
                 lookups, queries, sync>>

\* The page over a table no run is writing.
InitSearch ==
  /\ store \in SearchStores
  /\ source = BlankSheet
  /\ pc = "Idle"
  /\ headers = <<>>
  /\ rows = <<>>
  /\ totalRows = 0
  /\ failedRows = <<>>
  /\ validRows = <<>>
  /\ i = 0
  /\ upserted = 0
  /\ summary = NoSummary
  /\ exitCode = -1
  /\ requests = <<>>
  /\ store0 = store
  /\ prevStatus = "Idle"
  /\ sameSource = FALSE
  /\ runs = 0
  /\ config = NoCredentials
  /\ strategy = "none"
  /\ fetchPc = "Off"
  /\ attempt = 0
  /\ calls = <<>>
  /\ waits = <<>>
  /\ error = NoError
  /\ InitialRender

NextSearch ==
  \/ ChangeTerm
  \/ ResolveSuggestions
  \/ ClickSearch
  \/ PressEnter
  \/ SuggestionClick
  \/ ResolveLookup
  \/ Back

SpecSearch == InitSearch /\ [][NextSearch]_vars

\* ================================================================ claims
\* The sheet of the current run as the claims read it: the key cell of a
\* data row is the cell under "Reg No", the first column of SheetHeaders.
SourceKeyCells == [n \in 1..Len(source.rows) |-> Trim(source.rows[n][1])]
SourceKeySet == {SourceKeyCells[n] : n \in 1..Len(source.rows)} \ {<<>>}
RowsOfKey(k) == {n \in 1..Len(source.rows) : SourceKeyCells[n] = k}
LastRowOfKey(k) == CHOOSE n \in RowsOfKey(k) : \A o \in RowsOfKey(k) : o <= n

\* C1: after a run that reaches Done the keys of the store are exactly the
\* trimmed, non-blank register_no values of the sheet's data rows.
C1_StoreMirrorsSourceKeys ==
  pc = "Done" => DOMAIN store = SourceKeySet

\* A completed run that both removed a stale key and added a new one, on a
\* sheet with a key cell that needed trimming.
C1_Witness ==
  /\ pc = "Done"
  /\ DOMAIN store0 \ SourceKeySet # {}
  /\ SourceKeySet \ DOMAIN store0 # {}
  /\ \E n \in 1..Len(source.rows) : source.rows[n][1] # SourceKeyCells[n]

\* Where the claims read a field in a data row: the position of its column
\* in SheetHeaders.
ColumnOf ==
     "register_no" :> 1 @@ "name" :> 2 @@ "father_name" :> 3
  @@ "mother_name" :> 4 @@ "address" :> 5 @@ "class" :> 6 @@ "year" :> 7
  @@ "department" :> 8 @@ "cia_1_mark" :> 9 @@ "cia_2_mark" :> 10
  @@ "present_today" :> 11 @@ "leave_taken" :> 12 @@ "email" :> 13
  @@ "phone_number" :> 14

\* The trimmed cell of data row n in the column of field f ('' when the row
\* stops before it).
SourceCell(n, f) ==
  IF ColumnOf[f] <= Len(source.rows[n])
  THEN Trim(source.rows[n][ColumnOf[f]]) ELSE <<>>

\* The number in that cell, Null when the cell is blank or not a number.
SourceNumber(n, f) ==
  IF SourceCell(n, f) # <<>> /\ NumberOf(SourceCell(n, f)).k = "num"
  THEN NumberOf(SourceCell(n, f)) ELSE Null

\* The data rows with a key, in sheet order: the rows a run sends.
ValidPositions ==
  SelectSeq([n \in 1..Len(source.rows) |-> n], LAMBDA n : SourceKeyCells[n] # <<>>)
BlankPositions ==
  SelectSeq([n \in 1..Len(source.rows) |-> n], LAMBDA n : SourceKeyCells[n] = <<>>)

RECURSIVE PayloadsOf(_)
PayloadsOf(reqs) ==
  IF reqs = <<>> THEN <<>>
  ELSE (IF Head(reqs).op = "upsert" THEN Head(reqs).batch ELSE <<>>)
       \o PayloadsOf(Tail(reqs))

\* The payloads this run has sent so far; the j-th one was built from data
\* row ValidPositions[j].
SentPayloads == PayloadsOf(requests)

AcademicBlank(n) == \A f \in NumFields : SourceNumber(n, f) = Null

\* C2: a key already stored whose source rows have all four academic fields
\* null keeps its stored cia_1_mark, cia_2_mark, present_today, leave_taken
\* and attendance_percentage through a run that reaches Done.
C2_BlankAcademicRowKeepsStoredGroup ==
  pc = "Done" =>
    \A k \in DOMAIN store0 :
      (RowsOfKey(k) # {} /\ \A n \in RowsOfKey(k) : AcademicBlank(n))
        => \A f \in AcademicKeys : store[k][f] = store0[k][f]

\* C3: in every payload upsertStudents sends, the five academic keys are all
\* present or all absent, and present exactly when one of the four numeric
\* fields of the normalized row is non-null.
C3_AcademicGroupAllOrNone ==
  \A j \in 1..Len(SentPayloads) :
    LET present == AcademicKeys \cap DOMAIN SentPayloads[j]
    IN  /\ present \in {{}, AcademicKeys}
        /\ present = AcademicKeys <=> ~AcademicBlank(ValidPositions[j])

ContactFields == {"email", "phone_number"}

\* C4: a blank email (phone_number) in a source row is left out of that row's
\* payload, and a stored key whose source rows all have it blank keeps its
\* stored email (phone_number) through a run that reaches Done.
C4_BlankContactOmittedAndKept ==
  /\ \A j \in 1..Len(SentPayloads) : \A f \in ContactFields :
       SourceCell(ValidPositions[j], f) = <<>> => f \notin DOMAIN SentPayloads[j]
  /\ pc = "Done" =>
       \A k \in DOMAIN store0 : \A f \in ContactFields :
         (RowsOfKey(k) # {} /\ \A n \in RowsOfKey(k) : SourceCell(n, f) = <<>>)
           => store[k][f] = store0[k][f]

\* A completed run over a sheet whose row for a stored key has no email: the
\* payload went out without the field and the stored address is still there.
C4_Witness ==
  /\ pc = "Done"
  /\ \E k \in DOMAIN store0 :
       /\ store0[k]["email"] = Str(<<"e">>)
       /\ RowsOfKey(k) # {}
       /\ \A n \in RowsOfKey(k) : SourceCell(n, "email") = <<>>
       /\ store[k]["email"] = Str(<<"e">>)
  /\ \E j \in 1..Len(SentPayloads) : "email" \notin DOMAIN SentPayloads[j]

ProfileValue(n, f) ==
  IF f = "department" /\ SourceCell(n, "department") = <<>>
  THEN SourceCell(n, "class") ELSE SourceCell(n, f)

DeleteReturned == pc = "Upserting" /\ i = 0
DeleteOps == {"delete_all", "delete_in"}

\* C6 as stated: deleteMissingStudents removes exactly the rows of S \ K and
\* touches no other row; it issues no delete when S \ K is empty and removes
\* every row when K is empty.
C6_DeleteExactlyStale ==
  DeleteReturned =>
    LET S == DOMAIN store0
        K == SourceKeySet
    IN  /\ DOMAIN store = S \ (S \ K)
        /\ \A k \in DOMAIN store : store[k] = store0[k]
        /\ S \ K = {} => \A r \in 1..Len(requests) : requests[r].op \notin DeleteOps
        /\ K = {} => DOMAIN store = {}

\* C6 (amended): as above, but the "no delete" case needs a non-empty K: with
\* K empty the unfiltered delete is issued whatever the store holds.
C6_DeleteExactlyStaleOrAll ==
  DeleteReturned =>
    LET S == DOMAIN store0
        K == SourceKeySet
    IN  /\ DOMAIN store = S \ (S \ K)
        /\ \A k \in DOMAIN store : store[k] = store0[k]
        /\ (K # {} /\ S \ K = {}) => requests = <<Req("select", {}, <<>>)>>
        /\ (K # {} /\ S \ K # {}) =>
             requests = <<Req("select", {}, <<>>), Req("delete_in", S \ K, <<>>)>>
        /\ K = {} => requests = <<Req("delete_all", {}, <<>>)>> /\ DOMAIN store = {}

\* deleteMissingStudents has removed a stale row and kept another one.
C6_Witness ==
  /\ DeleteReturned
  /\ DOMAIN store0 \ SourceKeySet # {}
  /\ DOMAIN store # {}
  /\ DOMAIN store # DOMAIN store0

\* C7: a data row is kept out of validRows (the upsert set and the keys the
\* delete pass protects) exactly when its trimmed register_no is blank; it is
\* counted in failed_rows and the run goes on; a keyed row without a name or
\* a department is sent like any other.
C7_OnlyBlankKeyExcludes ==
  /\ pc \in {"Deleting", "Upserting", "Summarizing", "Done"} =>
       /\ failedRows = [p \in 1..Len(BlankPositions) |-> BlankPositions[p] + 1]
       /\ [j \in 1..Len(validRows) |-> validRows[j]["register_no"].s]
            = [j \in 1..Len(ValidPositions) |-> SourceKeyCells[ValidPositions[j]]]
       /\ Len(SentPayloads) <= Len(ValidPositions)
       /\ \A j \in 1..Len(SentPayloads) :
            SentPayloads[j]["register_no"].s = SourceKeyCells[ValidPositions[j]]
  /\ pc = "Done" =>
       /\ summary.failed_rows = Len(BlankPositions)
       /\ Len(SentPayloads) = Len(ValidPositions)
  /\ (pc = "Aborted" /\ headers # <<>>) => requests # <<>>

\* A completed run over a sheet with a keyless row and a keyed row that has
\* neither name nor department: the first was counted, the second stored.
C7_Witness ==
  /\ pc = "Done"
  /\ summary.failed_rows > 0
  /\ \E j \in 1..Len(SentPayloads) :
       /\ SourceCell(ValidPositions[j], "name") = <<>>
       /\ ProfileValue(ValidPositions[j], "department") = <<>>
       /\ SentPayloads[j]["register_no"].s \in DOMAIN store

\* C8: a run that reaches Done on the sheet the previous completed run
\* pulled leaves the store as that run left it and deletes nothing.
C8_SecondRunChangesNothing ==
  (pc = "Done" /\ sameSource) =>
    /\ store = store0
    /\ \A r \in 1..Len(requests) :
         /\ requests[r].op # "delete_in"
         /\ requests[r].op = "delete_all" => DOMAIN store0 = {}

\* A second completed run on an unchanged two-row sheet with a stored key.
C8_Witness ==
  /\ pc = "Done"
  /\ sameSource
  /\ Len(source.rows) = MaxRows
  /\ DOMAIN store # {}
  /\ Len(SentPayloads) > 0

\* C9 as stated: between two consecutive completed runs that both have the
\* key, an academic field stored non-null stays non-null when the second
\* run's rows leave that field blank.
C9_BlankFieldNeverRegresses ==
  (pc = "Done" /\ prevStatus = "Done") =>
    \A k \in DOMAIN store0 \cap SourceKeySet : \A f \in NumFields :
      (store0[k][f] # Null /\ \A n \in RowsOfKey(k) : SourceNumber(n, f) = Null)
        => store[k][f] # Null

\* C9 (amended): the same when the second run's rows for the key leave all
\* four academic fields blank.
C9_BlankGroupNeverRegresses ==
  (pc = "Done" /\ prevStatus = "Done") =>
    \A k \in DOMAIN store0 \cap SourceKeySet : \A f \in AcademicKeys :
      (store0[k][f] # Null /\ \A n \in RowsOfKey(k) : AcademicBlank(n))
        => store[k][f] # Null

\* Two completed runs in a row; the second one's row for a key with stored
\* marks has no academic cell, and the mark is still there.
C9_Witness ==
  /\ pc = "Done"
  /\ prevStatus = "Done"
  /\ \E k \in DOMAIN store0 \cap SourceKeySet :
       /\ store0[k]["cia_1_mark"] # Null
       /\ \A n \in RowsOfKey(k) : AcademicBlank(n)
       /\ store[k]["cia_1_mark"] = store0[k]["cia_1_mark"]

\* C10: every attendance_percentage sent to the store lies between 0 and 100
\* (0 and 10000 hundredths).
C10_PercentageWithinRange ==
  \A j \in 1..Len(SentPayloads) :
    "attendance_percentage" \in DOMAIN SentPayloads[j] =>
      /\ SentPayloads[j]["attendance_percentage"].n >= 0
      /\ SentPayloads[j]["attendance_percentage"].n <= 10000

\* C11 as stated: a payload built from a row whose present_today or
\* leave_taken is null carries no attendance_percentage.
C11_NoPercentageWithoutCounts ==
  \A j \in 1..Len(SentPayloads) :
    (\E f \in {"present_today", "leave_taken"} : SourceNumber(ValidPositions[j], f) = Null)
      => "attendance_percentage" \notin DOMAIN SentPayloads[j]

\* C11 (amended): a payload built from a row whose present_today or
\* leave_taken is null while another academic field is not carries an
\* attendance_percentage all the same, the null count taken as 0: 0 when
\* present_today is null or not positive, 100 otherwise.
C11_NullCountTakenAsZero ==
  \A j \in 1..Len(SentPayloads) :
    LET n == ValidPositions[j]
        present == SourceNumber(n, "present_today")
        leave == SourceNumber(n, "leave_taken")
    IN  ((present = Null \/ leave = Null) /\ ~AcademicBlank(n)) =>
          /\ "attendance_percentage" \in DOMAIN SentPayloads[j]
          /\ SentPayloads[j]["attendance_percentage"] =
               (IF present # Null /\ present.n > 0 THEN Num(10000) ELSE Num(0))

\* A payload went out for a row with 2 present and no leave count: 100.
C11_Witness ==
  \E j \in 1..Len(SentPayloads) :
    /\ SourceNumber(ValidPositions[j], "present_today") = Num(2)
    /\ SourceNumber(ValidPositions[j], "leave_taken") = Null
    /\ SentPayloads[j]["attendance_percentage"] = Num(10000)

\* q is n / d rounded to the nearest integer, halves upwards, said without
\* the division: q - 1/2 <= n / d < q + 1/2 (d > 0).
IsNearest(q, n, d) == 2 * d * q <= 2 * n + d /\ 2 * n + d < 2 * d * (q + 1)

\* C12: when one of the four academic fields of a row is non-null, the
\* attendance_percentage written for it is present / (present + leave) x 100
\* rounded to 2 decimals when present + leave > 0 and 0 otherwise, a null
\* count taken as 0.
C12_PercentageIsRoundedRatio ==
  \A j \in 1..Len(SentPayloads) :
    LET n == ValidPositions[j]
        present == OrZero(SourceNumber(n, "present_today"))
        leave == OrZero(SourceNumber(n, "leave_taken"))
    IN  ~AcademicBlank(n) =>
          /\ "attendance_percentage" \in DOMAIN SentPayloads[j]
          /\ SentPayloads[j]["attendance_percentage"].k = "num"
          /\ IF present + leave > 0
             THEN IsNearest(SentPayloads[j]["attendance_percentage"].n,
                            10000 * present, present + leave)
             ELSE SentPayloads[j]["attendance_percentage"].n = 0

\* Payloads went out with 18 present, 2 leave (90.00) and, on other sheets,
\* with a ratio that needs rounding: here 2 present, 1 leave (66.67).
C12_Witness ==
  \E j \in 1..Len(SentPayloads) :
    /\ SourceNumber(ValidPositions[j], "present_today") = Num(2)
    /\ SourceNumber(ValidPositions[j], "leave_taken") = Num(1)
    /\ SentPayloads[j]["attendance_percentage"] = Num(6667)

\* The sheet with every cell of its "Attendance Percentage" column emptied.
PercentageColumn == Len(SheetHeaders)
WithoutPercentage(src) ==
  [headers |-> src.headers,
   rows |-> [n \in 1..Len(src.rows) |->
               [c \in 1..Len(src.rows[n]) |->
                  IF c = PercentageColumn THEN <<>> ELSE src.rows[n][c]]]]

\* What a run that goes through sends and leaves behind, as a function of
\* the sheet and of the store it finds.
RunOutcome(src, st0) ==
  LET headerIndex == buildHeaderIndex([h \in 1..Len(src.headers) |-> Trim(src.headers[h])])
      split == SplitRows(MapRows(headerIndex, src.rows), 1,
                         [valid |-> <<>>, failed |-> <<>>])
      payloads == [j \in 1..Len(split.valid) |-> BuildPayload(split.valid[j])]
      unique == uniqueNos(sheetRegisterNos(split.valid))
      kept == IF unique = {} THEN DeleteIn(st0, DOMAIN st0)
              ELSE DeleteIn(st0, missingNos(st0, unique))
  IN  [payloads |-> payloads, store |-> UpsertBatch(kept, payloads)]

\* C13: the payloads of a run and the store it leaves are those of the same
\* run on the sheet with the percentage column emptied: nothing written
\* depends on that column.
C13_PercentageColumnIgnored ==
  pc = "Done" =>
    [payloads |-> SentPayloads, store |-> store]
      = RunOutcome(WithoutPercentage(source), store0)

\* A completed run on a sheet whose percentage cell says 50 while the
\* counts give 90: 90 is what the store holds.
C13_Witness ==
  /\ pc = "Done"
  /\ source.rows[1][PercentageColumn] = <<"5", "0">>
  /\ SourceNumber(1, "present_today") = Num(18)
  /\ SourceNumber(1, "leave_taken") = Num(2)
  /\ store[<<"A">>]["attendance_percentage"] = Num(9000)

\* C14: on a run that reaches Done total_rows is the number of data rows of
\* the sheet, failed_rows the number of them with a blank register_no,
\* processed_rows the number of rows sent to the store, and total_rows is
\* the sum of the other two.
C14_SummaryCounts ==
  pc = "Done" =>
    /\ summary.total_rows = Len(source.rows)
    /\ summary.failed_rows = Len(BlankPositions)
    /\ summary.processed_rows = Len(SentPayloads)
    /\ summary.total_rows = summary.processed_rows + summary.failed_rows

\* A completed run over a sheet with one keyless and one keyed row.
C14_Witness ==
  /\ pc = "Done"
  /\ summary.failed_rows = 1
  /\ summary.processed_rows = 1
  /\ summary.total_rows = 2

\* The calls of the run that failed, as positions in calls.
FailedCalls == {k \in 1..Len(calls) : calls[k].outcome # "ok"}

\* C15: fetchWithRetry makes at most 3 attempts; the first response that is
\* ok is returned and nothing is fetched after it; a status that is not ok
\* and a thrown error both count as a failure; 500 x k ms are slept after
\* the k-th failure when an attempt is left, nothing after the third; after
\* 3 failures the error of the third attempt is thrown.
C15_RetryPolicy ==
  strategy \in {"api", "csv"} =>
    LET failures == Cardinality(FailedCalls)
    IN  /\ Len(calls) <= 3
        /\ \A k \in 1..Len(calls) :
             /\ calls[k].at = k
             /\ calls[k].outcome = "ok" => k = Len(calls)
        /\ waits = [k \in 1..(IF failures < 3 THEN failures ELSE 2) |-> 500 * k]
        /\ failures = 3 =>
             /\ pc = "Aborted"
             /\ error = [kind |-> calls[3].outcome, at |-> 3]
        /\ (failures < 3 /\ failures = Len(calls)) =>
             /\ pc = "Fetching"
             /\ fetchPc = "Request"
             /\ error = NoError
        /\ failures < Len(calls) => error.kind \in {"none", "empty"}

\* Three failures of two kinds, the delays 500 and 1000 between them, and
\* the error of the third one thrown.
C15_Witness ==
  /\ pc = "Aborted"
  /\ strategy = "api"
  /\ Len(calls) = 3
  /\ calls[1].outcome = "http"
  /\ calls[2].outcome = "http"
  /\ calls[3].outcome = "network"
  /\ waits = <<500, 1000>>
  /\ error = [kind |-> "network", at |-> 3]

\* C16: whatever the strategy, a run that aborts in the fetch on a failing
\* network call has made 3 attempts of that call, all failed.
C16_EveryStrategyRetries ==
  (pc = "Aborted" /\ error.kind \notin {"none", "empty"}) =>
    /\ Len(calls) = 3
    /\ FailedCalls = 1..3

\* The branch the credentials call for, said again from the claim.
Precedence ==
  CASE config.sa \in {"path", "json"} -> "sa"
    [] config.sa = "none" /\ config.apiKey -> "api"
    [] config.sa = "none" /\ ~config.apiKey -> "csv"

\* C17: a run takes the one strategy the credentials call for (service
\* account, else API key, else CSV export): every network call of the run is
\* a call of that strategy, also when it fails and the run aborts.
C17_OneStrategyByPrecedence ==
  /\ strategy \in {"none", Precedence}
  /\ fetchPc # "Branch" => strategy = Precedence
  /\ \A k \in 1..Len(calls) : calls[k].strategy = Precedence
  /\ (pc = "Aborted" /\ error # NoError) => calls # <<>>

\* The service account is refused while an API key is there as well: the
\* run has aborted after the one call.
C17_Witness ==
  /\ pc = "Aborted"
  /\ config = [sa |-> "json", apiKey |-> TRUE]
  /\ calls = <<Call("sa", "403", 1)>>

\* C18: once the fetch has failed (three failed attempts, a service-account
\* call refused or failing, no values or an empty text for the sheet) the
\* run is aborted, has issued no call to the store, and the store is what it
\* was when the run started.
C18_FetchAbortLeavesStore ==
  LET exhausted == strategy \in {"api", "csv"} /\ Cardinality(FailedCalls) >= 3
      refused == strategy = "sa" /\ FailedCalls # {}
      nothing == source = EmptySheet /\ fetchPc = "Off"
  IN  (exhausted \/ refused \/ nothing) =>
        /\ pc = "Aborted"
        /\ exitCode = 1
        /\ requests = <<>>
        /\ store = store0

\* The CSV export answered with an empty text while the store holds a row.
C18_Witness ==
  /\ pc = "Aborted"
  /\ strategy = "csv"
  /\ source = EmptySheet
  /\ error.kind = "empty"
  /\ calls = <<Call("csv", "http", 1), Call("csv", "ok", 2)>>
  /\ DOMAIN store # {}

\* The upsert requests of the run, in order.
UpsertRequests == SelectSeq(requests, LAMBDA r : r.op = "upsert")

\* What deleteMissingStudents leaves of the store the run started on.
AfterDelete ==
  IF SourceKeySet = {} THEN <<>>
  ELSE [k \in DOMAIN store0 \cap SourceKeySet |-> store0[k]]

\* C19: the chunks sent hold at most batchSize rows each, all but the last
\* one exactly batchSize, and follow the order of the sheet; when the upsert
\* of a chunk fails the run is aborted with that chunk as its last request,
\* and the store holds the deletions and every chunk sent before it.
C19_ChunksInOrderNoRollback ==
  LET sent == UpsertRequests
      aborted == pc = "Aborted" /\ requests # <<>>
                   /\ requests[Len(requests)].op = "upsert"
      committed == IF aborted THEN SubSeq(sent, 1, Len(sent) - 1) ELSE sent
  IN  /\ \A c \in 1..Len(sent) :
           /\ Len(sent[c].batch) >= 1
           /\ Len(sent[c].batch) <= batchSize
           /\ c < Len(sent) => Len(sent[c].batch) = batchSize
      /\ \A j \in 1..Len(SentPayloads) :
           SentPayloads[j]["register_no"].s = SourceKeyCells[ValidPositions[j]]
      /\ pc \in {"Upserting", "Summarizing", "Done", "Aborted"} /\ sent # <<>> =>
           /\ store = UpsertBatch(AfterDelete, PayloadsOf(committed))
           /\ upserted = Len(PayloadsOf(committed))
      /\ aborted =>
           /\ exitCode = 1
           /\ Len(PayloadsOf(committed)) < Len(ValidPositions)

\* A stale row deleted, the first chunk stored, the second chunk refused.
C19_Witness ==
  /\ pc = "Aborted"
  /\ Len(requests) = 4
  /\ requests[2].op = "delete_in"
  /\ requests[4].op = "upsert"
  /\ upserted = batchSize
  /\ DOMAIN store0 \ DOMAIN store # {}
  /\ DOMAIN store \ DOMAIN store0 # {}

\* The moves from one stage to the next; the parser is passed by when the
\* values come from the API.
StageMoves ==
  {<<"Fetching", "Parsing">>, <<"Fetching", "Normalizing">>,
   <<"Parsing", "Normalizing">>, <<"Normalizing", "Deleting">>,
   <<"Deleting", "Upserting">>, <<"Upserting", "Summarizing">>,
   <<"Summarizing", "Done">>,
   <<"Fetching", "Aborted">>, <<"Deleting", "Aborted">>, <<"Upserting", "Aborted">>}

\* Every call of the delete pass comes before every upsert, and an upsert
\* is only there once the delete pass has returned.
DeleteBeforeUpsert ==
  \A r \in 1..Len(requests) :
    requests[r].op = "upsert" =>
      /\ pc \in {"Upserting", "Summarizing", "Done", "Aborted"}
      /\ \A q \in r..Len(requests) : requests[q].op = "upsert"

\* C20: a run moves through Fetching, Parsing, Normalizing, Deleting,
\* Upserting, Summarizing, Done in that order and never back; Aborted is
\* entered from Fetching, Deleting or Upserting only; no upsert is issued
\* before the delete pass has returned.
C20_StagesInOrder ==
  /\ [][pc' # pc => <<pc, pc'>> \in StageMoves]_vars
  /\ []DeleteBeforeUpsert

\* A run over the CSV export that got through every stage, with a delete
\* and an upsert on its way.
C20_Witness ==
  /\ pc = "Done"
  /\ strategy = "csv"
  /\ Len(requests) = 3
  /\ requests[2].op = "delete_in"
  /\ requests[3].op = "upsert"

\* C21: the process has exited with code 0 exactly when the run is in Done,
\* rows counted as failed or not; it has exited with a code other than 0
\* whenever the run is in Aborted; the summary is there exactly in Done.
C21_ExitCodeAndSummary ==
  /\ exitCode = 0 <=> pc = "Done"
  /\ pc = "Aborted" => exitCode \notin {0, -1}
  /\ pc \notin {"Done", "Aborted"} => exitCode = -1
  /\ summary # NoSummary <=> pc = "Done"

\* A run that counted a keyless row has exited with 0 and a summary.
C21_Witness ==
  /\ pc = "Done"
  /\ exitCode = 0
  /\ summary.failed_rows = 1
  /\ summary.processed_rows = 0

\* The number of quote characters of a line.
QuoteCount(line) == Len(SelectSeq(line, LAMBDA c : c = "\""))

\* A text with a line whose quoted field is never closed.
Unterminated(text) ==
  LET lines == SplitLines(NormalizeNewlines(text))
  IN  \E k \in DOMAIN lines : QuoteCount(lines[k]) % 2 = 1

\* C22: a run whose text has a line with an unterminated quoted field
\* aborts: it never gets to normalize, delete or upsert rows.
C22_MalformedTextAborts ==
  ("text" \in DOMAIN source /\ Unterminated(source.text))
    => /\ pc \in {"Fetching", "Parsing", "Aborted"}
       /\ requests = <<>>

\* C23: the text that wraps each cell in quotes and doubles the quotes
\* inside parses back to the header and the cells it was built from.
C23_ParseInvertsQuoting ==
  (/\ pc = "Normalizing"
   /\ "text" \in DOMAIN source
   /\ source.text = QuotedText(source.headers, source.rows[1]))
    => /\ headers = source.headers
       /\ rows = source.rows

\* The field name each label of HeaderLabels is to resolve to: the alias
\* table for the spellings of the key and for Name, the lower-case label
\* with an underscore for each run of spaces for the others.
ResolvesTo(label) ==
  CASE label \in {LabelRegNo, LabelRegisterNo, LabelRegistrationNumber}
         -> FieldName["register_no"]
    [] label = LabelName -> FieldName["name"]
    [] label = LabelBloodGroup -> <<"b", "l", "o", "o", "d", "_", "g", "r", "o", "u", "p">>
    [] label = LabelConstructor -> <<"c", "o", "n", "s", "t", "r", "u", "c", "t", "o", "r">>

\* The 0-based positions of the headers that resolve to a name.
PositionsOf(name) == {n - 1 : n \in {h \in DOMAIN headers : ResolvesTo(headers[h]) = name}}

\* C24: the index built from the fetched header row has an entry for
\* exactly the names its labels resolve to, each at the position of the
\* last header that resolves to it.
C24_IndexOfLastResolvedHeader ==
  pc = "Normalizing"
    => LET index == buildHeaderIndex(headers)
       IN  /\ DOMAIN index = {ResolvesTo(headers[h]) : h \in DOMAIN headers}
           /\ \A name \in DOMAIN index :
                /\ index[name] \in PositionsOf(name)
                /\ \A n \in PositionsOf(name) : n <= index[name]

\* The department a data row is to be given: the class of the row when
\* its department cell is blank and its class cell is not, its own trimmed
\* department otherwise.
DepartmentOf(n) ==
  IF SourceCell(n, "department") = <<>> /\ SourceCell(n, "class") # <<>>
  THEN SourceCell(n, "class")
  ELSE SourceCell(n, "department")

\* C25: every fetched data row is mapped to a row with that department:
\* the keyless rows, which the run drops, when mapped as the run is about
\* to map them, and the keyed rows as the run keeps them for the upsert.
C25_DepartmentFromClassWhenBlank ==
  /\ pc = "Normalizing"
       => \A b \in DOMAIN BlankPositions :
            mapRowToStudent(buildHeaderIndex(headers), rows[BlankPositions[b]]).department
              = Str(DepartmentOf(BlankPositions[b]))
  /\ pc \in {"Deleting", "Upserting", "Summarizing", "Done"}
       => \A j \in DOMAIN validRows :
            validRows[j].department = Str(DepartmentOf(ValidPositions[j]))

\* A run has kept a row whose blank department was filled from its class,
\* next to a row that kept its own department.
C25_Witness ==
  /\ pc = "Upserting"
  /\ \E j, k \in DOMAIN validRows :
       /\ SourceCell(ValidPositions[j], "department") = <<>>
       /\ validRows[j].department = Str(<<"C">>)
       /\ SourceCell(ValidPositions[k], "class") = <<"C">>
       /\ validRows[k].department = Str(<<"D">>)

\* The keys of the rows the run has removed from the store it started on,
\* and a run aborted by the failure of an upsert.
RemovedKeys == DOMAIN store0 \ DOMAIN store
AbortedInUpsert ==
  /\ pc = "Aborted"
  /\ requests # <<>>
  /\ requests[Len(requests)].op = "upsert"

\* C26 as stated, for the runs it is about: when the upsert fails after the
\* delete pass has removed rows, a removed row is missing that the upsert
\* pass was still to insert again.
C26_AbortLosesRowAwaitingUpsert ==
  (AbortedInUpsert /\ RemovedKeys # {})
    => \E k \in RemovedKeys : k \in SourceKeySet

\* C26 (amended): the delete pass only ever removes rows whose key is not
\* in the sheet, so no removed row is one the upsert pass would write; a run
\* aborted by a failing upsert leaves the stale rows deleted, every stored
\* row of the sheet in place, and of the new rows only those of the chunks
\* sent before the failing one.
C26_AbortKeepsDeletionsAndSentChunks ==
  LET sent == UpsertRequests
      committed == PayloadsOf(SubSeq(sent, 1, Len(sent) - 1))
  IN  /\ \A k \in RemovedKeys : k \notin SourceKeySet
      /\ AbortedInUpsert =>
           /\ RemovedKeys = DOMAIN store0 \ SourceKeySet
           /\ DOMAIN store =
                (DOMAIN store0 \cap SourceKeySet)
                  \cup {committed[j]["register_no"].s : j \in DOMAIN committed}
           /\ Len(committed) < Len(validRows)

\* A chunk was refused after a stale row had been deleted and an earlier
\* chunk stored: the stale row stays deleted, a row of the sheet is unsent.
C26_Witness ==
  /\ AbortedInUpsert
  /\ RemovedKeys # {}
  /\ RemovedKeys \cap SourceKeySet = {}
  /\ upserted >= 1
  /\ upserted < Len(validRows)

\* The payloads sent for key k that list column f, by their place among
\* the payloads sent, and the last of a set of places.
SupplyingPayloads(k, f) ==
  {j \in DOMAIN SentPayloads :
     SentPayloads[j]["register_no"].s = k /\ f \in DOMAIN SentPayloads[j]}
LastOf(S) == CHOOSE j \in S : \A o \in S : o <= j

C28_StoredPercentageIsDerived ==
  \A k \in DOMAIN store :
    \/ \A f \in AcademicKeys : store[k][f] = Null
    \/ store[k]["attendance_percentage"] = Num(deriveAttendance(store[k]))

\* C29: in the step that resolves the last lookup under way when two or
\* more have been started, whichever of them it is, the page comes to show
\* the answer of the lookup started last, and notFound is true exactly when
\* no student is selected.
C29_LastStartedSearchShown ==
  [][(/\ Len(lookups) >= 2
      /\ \E n \in DOMAIN lookups : ~lookups[n].done
      /\ \A n \in DOMAIN lookups' : lookups'[n].done)
       => /\ selectedStudent' = lookups'[Len(lookups')].data
          /\ notFound' = (lookups'[Len(lookups')].data = Null)
          /\ notFound' = (selectedStudent' = Null)]_vars

====
